---- MODULE Spec2Model ----
(***************************************************************************)
(* Model of the LLM deployment system: the webhook endpoint (main.py,      *)
(* deploy_endpoint), the background task process_deployment, and the       *)
(* notification delivery loop NotificationService._notify_evaluation.      *)
(*                                                                         *)
(* The server is one asyncio event loop.  A coroutine runs on the loop's   *)
(* single thread from the moment it is resumed until it reaches an await   *)
(* that really suspends (client.post, asyncio.sleep); the LLM and GitHub   *)
(* clients are called synchronously (requests / PyGithub / time.sleep) and *)
(* keep the thread for the whole call.  `thread` is the coroutine that     *)
(* currently owns the event-loop thread.                                   *)
(***************************************************************************)
EXTENDS Integers, Sequences, FiniteSets, TLC

\* ------------------------------------------------------------------ bounds
NumDeps == 2            \* webhook calls (deployments) in one behaviour
MaxRetriesArg == 7      \* largest max_retries a direct caller passes
MaxCalls == 2           \* direct calls of the loop with the same arguments
MaxRuns == 3            \* round-1 repository setups run against the hosting store

Deps == 1..NumDeps
Harness == 0            \* a direct caller of _notify_evaluation (run_tests, sync wrapper)
Callers == Deps \cup {Harness}
Free == {}              \* nobody runs: the event loop is idle and can resume anyone

\* ------------------------------------------------------- program constants
delays == <<1, 2, 4, 8, 16>>          \* notification_service.py:70
RunnerMaxRetries == 5                 \* main.py:190
ShaLength == 40                       \* models.py:88

\* Outcomes of one `await self.client.post(...)`.
\* A response with a status code, or an exception raised by the call.
Response(code) == [exc |-> "none", status |-> code]
Raised(e) == [exc |-> e, status |-> 0]
Statuses == {Response(200), Response(201), Response(500), Response(503)}
Failures == {Raised("timeout"), Raised("network"), Raised("http"), Raised("other")}
Outcomes == Statuses \cup Failures
NoOutcome == [exc |-> "none", status |-> 0]

\* llm_service_aipipe.py:195 and 275: the value __init__ gives _last_request_time,
\* and a reading of time.time().
NeverRequested == 0
ClockReading == 1

\* llm_service_aipipe.py:155-203: the object LLMServiceAIPipe() returns.
LLMServiceAIPipe ==
  [api_key |-> "AIPIPE_API_KEY", session |-> "requests.Session",
   templates |-> "cached", last_request_time |-> NeverRequested]

\* Fields GitHubService.__init__ assigns on self.
GitHubFields == {"git_auth_token", "git_uname", "client", "user", "templates"}

\* github_service.py:29-60: the object GitHubService() returns.
GitHubService == [f \in GitHubFields |-> f]

\* github_service.py:51-56: the read of user.login or the load of the templates
\* failed inside the inner try; the bare except logs it and __init__ returns an
\* object that has no templates attribute.
GitHubService_NoTemplates == [f \in GitHubFields \ {"templates"} |-> f]

\* github_service.py:225: add_license reads self.templates['license'] first;
\* without the attribute that is an AttributeError, which is no GithubException.
HasTemplates(gh) == "templates" \in DOMAIN gh

\* main.py:37-38: the value of both globals before lifespan has run.
None == [none |-> "None"]

\* Outcomes of the two constructors lifespan calls (llm_service_aipipe.py:155-203,
\* github_service.py:29-60): the object is built, the constructor raises, or
\* GitHubService swallows its failure.
LLMInits == {"ok", "raises"}
GitHubInits == {"ok", "raises", "swallowed"}

\* Commit identifiers the hosting client may hand back from push_files: their
\* length, whether every character is a hexadecimal digit (of either case),
\* and whether an uppercase letter occurs.
ShaValues == [len : {ShaLength - 1, ShaLength}, hex : BOOLEAN, upper : {FALSE}]
UpperShaValues == {[len |-> ShaLength, hex |-> TRUE, upper |-> TRUE]}

VARIABLES
  thread,       \* {c}: coroutine c owns the event-loop thread; Free: nobody does
  shared_secret,\* os.getenv("SHARED_SECRET"): "" when unset
  req,          \* req[d]: the webhook call of deployment d (or NoReq)
  resp,         \* resp[d]: HTTP status answered to the webhook caller, 0 = none yet
  compared,     \* compared[d]: the handler of call d executed validate_secret
  background,   \* background[d]: requests the handler added to the call's BackgroundTasks
  pc,           \* pc[d]: position of process_deployment
  waiting,      \* waiting[d]: inside a blocking collaborator call
  failed,       \* failed[d]: the step whose exception reached the except clause
  commit_sha,   \* commit_sha[d]: value returned by push_files (or NoSha)
  opened,       \* opened[d]: NotificationService.__aenter__ calls
  deliveries,   \* deliveries[d]: _notify_evaluation calls made by the runner
  errlog,       \* errlog[d]: steps whose failure was logged and absorbed by the collaborator
  repo_name,    \* repo_name[d]: the local repo_name of process_deployment (main.py:112)
  hosted,       \* hosted[d]: names process_deployment has passed to hosting calls
  keep_log,     \* errlog and hosted are histories kept only in behaviours that start with keep_log
  repos,        \* repos[n]: repository n of the user: "absent" | "empty" | "licensed"
  created,      \* created[n]: repositories named n that create_repo has created
  licensed,     \* licensed[n]: LICENSE files that create_file has written to n
  setup,        \* the round-1 setup in progress: repo name, step, return, fault-free so far
  nruns,        \* setups started
  clean_runs,   \* clean_runs[n]: setups of n completed without a failing API call
  commits,      \* commits[n]: commits on branch main of n; commit k is the k-th one
  files,        \* files[n]: paths push_files has written to n
  push,         \* the push_files call in progress: repo, files left, commits found, return
  client,       \* client[c]: "none" | "open" | "closed"  (self.client)
  payload,      \* payload[c]: the dict `data` of the loop: field name -> typed value
  target,       \* target[c]: url the loop posts to
  lpc,          \* lpc[c]: position of _notify_evaluation
  max_retries,  \* max_retries[c]
  attempt,      \* attempt[c]: loop variable
  posts,        \* posts[c]: client.post calls issued in the current loop call
  waits,        \* waits[c]: delays slept so far in the current loop call
  last,         \* last[c]: outcome handled by the latest attempt
  result,       \* result[c]: return value of the loop ("none" until it returns)
  received,     \* received[c]: POSTs of the current call the receiver has processed
  arrived,      \* arrived[c]: the receiver has processed the POST that is in flight
  endpoint,     \* behaviour of the endpoint the direct caller posts to
  ncalls,       \* direct calls started
  prev,         \* outcome of the previous direct call, or NoCall
  wrapper,      \* the current direct call goes through SyncNotificationService
  send,         \* send_with_retry: a call of it is running; what its last call returned
  helper,       \* a call of a function of utils/helpers.py: function, arguments, return
  llm_service,  \* the global llm_service of main.py: the fields of the LLMServiceAIPipe object
  github_service, \* the global github_service of main.py: the fields of the GitHubService object
  llm_api,      \* behaviour of the generation API the session posts to
  app           \* the FastAPI application: "starting", "serving", or "failed" to start

callVars == <<req, resp, compared, background>>
runnerVars == <<callVars, pc, waiting, failed, commit_sha, errlog, repo_name, hosted, opened,
               deliveries>>
pushVars == <<commits, files, push>>
hostVars == <<repos, created, licensed, setup, nruns, clean_runs, pushVars>>
clientVars == <<llm_service, github_service>>
envVars == <<shared_secret, keep_log, helper, llm_api, app, clientVars, hostVars>>
loopVars == <<client, payload, target, lpc, max_retries, attempt, posts, waits, last, result,
             received, arrived>>
harnessVars == <<endpoint, ncalls, prev, wrapper, send>>
serverVars == <<thread, shared_secret, keep_log, helper, llm_api, app, clientVars, runnerVars, loopVars,
               harnessVars>>
vars == <<thread, envVars, runnerVars, loopVars, harnessVars>>

\* No helper is called on its own.
NoHelper == [fn |-> "none", args |-> <<>>, ret |-> <<>>]

NoReq == [round |-> 0, secret |-> "", valid |-> FALSE, url |-> "none", nonce |-> 0,
          task |-> <<>>, email |-> <<>>]
NoName == <<>>
NoSha == [len |-> 0, hex |-> FALSE, upper |-> FALSE]
NoCall == [result |-> "none", posts |-> 0, waits |-> <<>>, sync |-> FALSE, open |-> FALSE]

\* ------------------------------------------------------------ pure helpers
RECURSIVE SumSeq(_)
SumSeq(s) == IF s = <<>> THEN 0 ELSE Head(s) + SumSeq(Tail(s))

\* Mutant: the delay doubles without the cap of the schedule's last entry.
BackoffDelay_Uncapped(i) == 2 ^ i

\* notification_service.py:131
BackoffDelay(i) == IF i < Len(delays) THEN delays[i + 1] ELSE delays[Len(delays)]

\* Mutant: the wait is not skipped after the final attempt.
ShouldWait_AfterEvery(i, n) == i < n

\* notification_service.py:130
ShouldWait(i, n) == i < n - 1

\* Mutant: max_retries counts the retries after a first attempt.
LoopExhausted_OneMore(i, n) == i > n

\* notification_service.py:72: range(max_retries) has no value left for attempt i.
LoopExhausted(i, n) == i >= n

\* Mutant: the comparison stops at the first byte that differs.
compare_digest_ShortCircuit(a, b) ==
  LET n == IF Len(a) < Len(b) THEN Len(a) ELSE Len(b)
      diff == {i \in 1..n : a[i] # b[i]}
      first == IF diff = {} THEN n ELSE CHOOSE i \in diff : \A j \in diff : i <= j
  IN  [equal |-> Len(a) = Len(b) /\ diff = {}, examined |-> first]

\* secrets.compare_digest, called at helpers.py:42, on two byte strings: every
\* position of b is examined and the differences are accumulated; with unequal
\* lengths b is run against itself and the result is unequal.
compare_digest(a, b) ==
  LET left == IF Len(a) = Len(b) THEN a ELSE b
      diff == {i \in 1..Len(b) : left[i] # b[i]}
  IN  [equal |-> Len(a) = Len(b) /\ diff = {}, examined |-> Len(b)]

\* str.encode('utf-8') of the secrets of the model, one byte per character.
encode(s) ==
  CASE s = ""    -> <<>>
    [] s = "abc" -> <<"a", "b", "c">>
    [] s = "abd" -> <<"a", "b", "d">>

\* helpers.py:37-42 on the encoded secrets: the verdict, and the byte positions
\* the comparison examined.
validate_secret_bytes(provided, expected) ==
  IF provided = <<>> \/ expected = <<>> THEN [equal |-> FALSE, examined |-> 0]
  ELSE compare_digest(provided, expected)

\* utils/helpers.py:20-42
validate_secret(provided, expected) ==
  validate_secret_bytes(encode(provided), encode(expected)).equal

\* Mutant: only the digits are checked.
validate_sha_format_AnyLength(sha) == sha.hex

\* models.py:88 and 99-105: the length is checked on the value as given, the
\* digits on its lowercased form.
validate_sha_format(sha) == sha.len = ShaLength /\ sha.hex

\* models.py:105: the validator returns v.lower()
lower_sha(sha) == [sha EXCEPT !.upper = FALSE]

\* ------------------------------------------------------------- text values
\* A text is a sequence of one-character strings.
UpperCase == <<"A", "B", "C", "D", "E", "F", "G", "H", "I", "J", "K", "L", "M", "N", "O", "P", "Q", "R", "S", "T", "U", "V", "W", "X", "Y", "Z">>
LowerCase == <<"a", "b", "c", "d", "e", "f", "g", "h", "i", "j", "k", "l", "m", "n", "o", "p", "q", "r", "s", "t", "u", "v", "w", "x", "y", "z">>
Digits == {"0", "1", "2", "3", "4", "5", "6", "7", "8", "9"}

\* str.lower() on one character (helpers.py:105, models.py:54)
LowerOf == [ch \in {UpperCase[i] : i \in 1..Len(UpperCase)} |->
              LowerCase[CHOOSE i \in 1..Len(UpperCase) : UpperCase[i] = ch]]
lower_char(ch) == IF ch \in DOMAIN LowerOf THEN LowerOf[ch] ELSE ch

\* str.lower()
lower(s) == [i \in 1..Len(s) |-> lower_char(s[i])]

\* ------------------------------------------------- sanitize_repo_name
MaxNameLength == 100                  \* helpers.py:116

\* helpers.py:103: the characters the pattern [^a-z0-9-] leaves alone.
NameChars == {LowerCase[i] : i \in 1..Len(LowerCase)} \cup Digits \cup {"-"}

\* helpers.py:103: re.sub(r'[^a-z0-9-]', '-', name)
ReplaceInvalid(s) == [i \in 1..Len(s) |-> IF s[i] \in NameChars THEN s[i] ELSE "-"]

\* helpers.py:106: re.sub(r'-+', '-', name): a hyphen that follows a hyphen is
\* dropped.
CollapseHyphens(s) ==
  LET marked == [i \in 1..Len(s) |->
                   [ch |-> s[i], drop |-> i > 1 /\ s[i] = "-" /\ s[i - 1] = "-"]]
      kept == SelectSeq(marked, LAMBDA m : ~m.drop)
  IN  [i \in 1..Len(kept) |-> kept[i].ch]

\* helpers.py:109: name.strip('-')
StripHyphens(s) ==
  LET kept == {i \in 1..Len(s) : s[i] # "-"}
  IN  IF kept = {} THEN <<>>
      ELSE SubSeq(s, CHOOSE i \in kept : \A j \in kept : i <= j,
                     CHOOSE i \in kept : \A j \in kept : i >= j)

\* helpers.py:113: datetime.now(timezone.utc).strftime('%Y%m%d-%H%M%S'), the
\* readings of the clock.
Timestamps == {<<"2", "0", "2", "6", "1", "1", "0", "1", "-", "0", "7", "4", "8", "0", "0">>,
               <<"2", "0", "2", "7", "0", "2", "2", "8", "-", "2", "3", "5", "9", "5", "9">>}

\* helpers.py:113
TimestampName(now) == <<"r", "e", "p", "o", "-">> \o now

\* helpers.py:116: name[:100]
Truncate(s) == SubSeq(s, 1, IF Len(s) < MaxNameLength THEN Len(s) ELSE MaxNameLength)

\* helpers.py:82-120, `now` is the reading of the clock at line 113.
sanitize_repo_name(task_name, now) ==
  LET name == StripHyphens(CollapseHyphens(ReplaceInvalid(lower(task_name))))
  IN  Truncate(IF name = <<>> THEN TimestampName(now) ELSE name)

\* ---------------------------------------------- _notify_evaluation (loop)
\* Mutant: every 2xx status counts as delivered.
IsSuccess_Any2xx(o) == o.exc = "none" /\ o.status >= 200 /\ o.status < 300

\* notification_service.py:89
IsSuccess(o) == o.exc = "none" /\ o.status = 200

\* Mutant: the final `except Exception` clause is missing.
ExceptClause_NoCatchAll(e) ==
  CASE e = "timeout" -> "httpx.TimeoutException"
    [] e = "network" -> "httpx.NetworkError"
    [] e = "http"    -> "httpx.HTTPError"
    [] OTHER         -> "propagates"

\* notification_service.py:106-128: the except clause that handles a raised
\* outcome, "propagates" when no clause matches.
ExceptClause(e) ==
  CASE e = "timeout" -> "httpx.TimeoutException"
    [] e = "network" -> "httpx.NetworkError"
    [] e = "http"    -> "httpx.HTTPError"
    [] e = "other"   -> "Exception"
    [] OTHER         -> "propagates"

\* Behaviours of the endpoint a direct caller posts to: the outcomes it may
\* produce for the POST of attempt index i.
Endpoints == {"any", "never200", "500x3_then_200", "always503"}

EndpointAnswers(e, i) ==
  CASE e = "any"            -> Outcomes
    [] e = "never200"       -> Outcomes \ {Response(200)}
    [] e = "500x3_then_200" -> IF i < 3 THEN {Response(500)} ELSE {Response(200)}
    [] e = "always503"      -> {Response(503)}

\* What the evaluator behind a request's evaluation_url may answer.
EvaluatorAnswers == {Response(200), Response(503), Raised("timeout")}

Answers(c, i) == IF c = Harness THEN EndpointAnswers(endpoint, i) ELSE EvaluatorAnswers

\* Values of the fields of a payload dict: a plain string, an integer, a typed
\* URL (an instance of a class named HttpUrl), or an object json cannot encode.
Str(v) == [type |-> "str", value |-> v]
Num(v) == [type |-> "int", value |-> v]
HttpUrl(v) == [type |-> "HttpUrl", value |-> v]
Obj(v) == [type |-> "object", value |-> v]

\* Before a caller has a payload.
NoPayload == [none |-> Str("none")]

\* notification_service.py:391-394 (test_data), and the same dict with a typed
\* URL or an object that cannot be encoded as the value of a top-level field.
TestData(v) == [test |-> Str("data"), link |-> v]
TestUrl == "https://postman-echo.com/post"
TypedUrl == "https://example.com/notify"
TestPayloads == {TestData(Str(TestUrl)), TestData(HttpUrl(TypedUrl)), TestData(Obj(TestUrl))}

\* Mutant: the payload is posted as it was given.
PreparePayload_AsGiven(p) == p

\* notification_service.py:75-78: top-level HttpUrl values are replaced by
\* str(v) in place, every other value is left as it is.
PreparePayload(p) ==
  [k \in DOMAIN p |-> IF p[k].type = "HttpUrl" THEN Str(p[k].value) ELSE p[k]]

\* notification_service.py:82: json=data can be encoded.
Serializable(p) == \A k \in DOMAIN p : p[k].type \in {"str", "int"}

\* notification_service.py:80-87: what client.post does before anything is sent.
\* self.client None -> AttributeError, closed client -> RuntimeError,
\* json=data not serializable -> TypeError.
PostRaisesEarly(c) == client[c] # "open" \/ ~Serializable(PreparePayload(payload[c]))

\* Mutant: a timeout is taken as "the receiver may have it": the remaining
\* attempts are skipped.
AfterFailure_NoResendAfterTimeout(c, o) ==
  /\ last' = [last EXCEPT ![c] = o]
  /\ IF o.exc # "none" /\ ExceptClause(o.exc) = "propagates"
       THEN /\ lpc' = [lpc EXCEPT ![c] = "raised"]
            /\ thread' = {c}
            /\ UNCHANGED <<attempt, waits>>
       ELSE IF ShouldWait(attempt[c], max_retries[c]) /\ o.exc # "timeout"
         THEN /\ lpc' = [lpc EXCEPT ![c] = "sleeping"]
              /\ waits' = [waits EXCEPT ![c] = Append(@, BackoffDelay(attempt[c]))]
              /\ thread' = Free
              /\ UNCHANGED attempt
         ELSE /\ lpc' = [lpc EXCEPT ![c] = "try"]
              /\ attempt' = [attempt EXCEPT ![c] = IF o.exc = "timeout" THEN max_retries[c] ELSE @ + 1]
              /\ thread' = {c}
              /\ UNCHANGED waits

\* notification_service.py:130-133 after a failed attempt of caller c that
\* handled outcome o; the coroutine owns the thread.
AfterFailure(c, o) ==
  /\ last' = [last EXCEPT ![c] = o]
  /\ IF o.exc # "none" /\ ExceptClause(o.exc) = "propagates"
       THEN /\ lpc' = [lpc EXCEPT ![c] = "raised"]
            /\ thread' = {c}
            /\ UNCHANGED <<attempt, waits>>
       ELSE IF ShouldWait(attempt[c], max_retries[c])
         THEN /\ lpc' = [lpc EXCEPT ![c] = "sleeping"]
              /\ waits' = [waits EXCEPT ![c] = Append(@, BackoffDelay(attempt[c]))]
              /\ thread' = Free
              /\ UNCHANGED attempt
         ELSE /\ lpc' = [lpc EXCEPT ![c] = "try"]
              /\ attempt' = [attempt EXCEPT ![c] = @ + 1]
              /\ thread' = {c}
              /\ UNCHANGED waits

\* notification_service.py:72-87: top of the for loop up to the await of client.post.
LoopTry(c) ==
  /\ lpc[c] = "try"
  /\ thread = {c}
  /\ IF LoopExhausted(attempt[c], max_retries[c])
       THEN \* range exhausted: lines 135-136
            /\ lpc' = [lpc EXCEPT ![c] = "done"]
            /\ result' = [result EXCEPT ![c] = "false"]
            /\ UNCHANGED <<thread, payload, posts, attempt, waits, last>>
       ELSE /\ payload' = [payload EXCEPT ![c] = PreparePayload(@)]
            /\ IF PostRaisesEarly(c)
                 THEN /\ AfterFailure(c, Raised("other"))
                      /\ UNCHANGED <<posts, result>>
                 ELSE /\ posts' = [posts EXCEPT ![c] = @ + 1]
                      /\ lpc' = [lpc EXCEPT ![c] = "posting"]
                      /\ thread' = Free
                      /\ UNCHANGED <<attempt, waits, last, result>>
  /\ UNCHANGED <<envVars, runnerVars, client, target, max_retries, received, arrived,
                 harnessVars>>

\* The receiver processes the POST of caller c that is in flight; its answer is
\* still under way and may get lost.
Receive(c) ==
  /\ lpc[c] = "posting"
  /\ ~arrived[c]
  /\ arrived' = [arrived EXCEPT ![c] = TRUE]
  /\ received' = [received EXCEPT ![c] = @ + 1]
  /\ UNCHANGED <<thread, envVars, runnerVars, client, payload, target, lpc, max_retries, attempt,
                 posts, waits, last, result, harnessVars>>

\* notification_service.py:80-133: client.post completes with outcome o and the
\* coroutine is resumed.
PostReturn(c, o) ==
  /\ lpc[c] = "posting"
  /\ thread = Free
  /\ o \in Answers(c, attempt[c])
  /\ IF IsSuccess(o)
       THEN /\ lpc' = [lpc EXCEPT ![c] = "done"]
            /\ result' = [result EXCEPT ![c] = "true"]
            /\ last' = [last EXCEPT ![c] = o]
            /\ thread' = {c}
            /\ UNCHANGED <<attempt, waits>>
       ELSE /\ AfterFailure(c, o)
            /\ UNCHANGED result
  /\ received' = [received EXCEPT ![c] = IF IsSuccess(o) /\ ~arrived[c] THEN @ + 1 ELSE @]
  /\ arrived' = [arrived EXCEPT ![c] = FALSE]
  /\ UNCHANGED <<envVars, runnerVars, client, payload, target, max_retries, posts, harnessVars>>

\* notification_service.py:133: asyncio.sleep(delay) is over, next iteration.
Wake(c) ==
  /\ lpc[c] = "sleeping"
  /\ thread = Free
  /\ thread' = {c}
  /\ lpc' = [lpc EXCEPT ![c] = "try"]
  /\ attempt' = [attempt EXCEPT ![c] = @ + 1]
  /\ UNCHANGED <<envVars, runnerVars, client, payload, target, max_retries, posts, waits, last,
                 result, received, arrived, harnessVars>>

\* _notify_evaluation has returned to caller c: its locals are gone, the number
\* of POSTs it issued and its return value stay on record.
LeaveLoop(c) ==
  /\ lpc' = [lpc EXCEPT ![c] = "idle"]
  /\ attempt' = [attempt EXCEPT ![c] = 0]
  /\ waits' = [waits EXCEPT ![c] = <<>>]
  /\ last' = [last EXCEPT ![c] = NoOutcome]
  /\ arrived' = [arrived EXCEPT ![c] = FALSE]

\* _notify_evaluation(url, data, max_retries) is entered by caller c.
EnterLoop(c, url, n) ==
  /\ lpc' = [lpc EXCEPT ![c] = "try"]
  /\ target' = [target EXCEPT ![c] = url]
  /\ max_retries' = [max_retries EXCEPT ![c] = n]
  /\ attempt' = [attempt EXCEPT ![c] = 0]
  /\ posts' = [posts EXCEPT ![c] = 0]
  /\ waits' = [waits EXCEPT ![c] = <<>>]
  /\ last' = [last EXCEPT ![c] = NoOutcome]
  /\ result' = [result EXCEPT ![c] = "none"]
  /\ received' = [received EXCEPT ![c] = 0]
  /\ arrived' = [arrived EXCEPT ![c] = FALSE]

\* ------------------------------------------------------- direct callers
\* run_tests / SyncNotificationService.notify_evaluation: a call of the loop
\* with this behaviour's arguments, repeated up to MaxCalls times.
HarnessCall ==
  /\ lpc[Harness] = "idle"
  /\ thread = Free
  /\ ncalls < MaxCalls
  /\ ncalls' = ncalls + 1
  /\ thread' = {Harness}
  /\ wrapper' = FALSE
  /\ EnterLoop(Harness, target[Harness], max_retries[Harness])
  /\ UNCHANGED <<envVars, runnerVars, client, payload, endpoint, prev, send>>

\* The loop has returned (or raised) to the direct caller.
HarnessReturn ==
  /\ lpc[Harness] \in {"done", "raised"}
  /\ thread = {Harness}
  /\ ~wrapper
  /\ thread' = Free
  /\ prev' = [result |-> IF lpc[Harness] = "raised" THEN "raised" ELSE result[Harness],
              posts |-> posts[Harness], waits |-> waits[Harness],
              sync |-> FALSE, open |-> client[Harness] = "open"]
  /\ LeaveLoop(Harness)
  /\ UNCHANGED <<envVars, runnerVars, client, payload, target, max_retries,
                 posts, result, received, endpoint, ncalls, wrapper, send>>

\* No call of send_with_retry was made.
NoSend == [active |-> FALSE, ret |-> <<>>]

\* notification_service.py:153 and 155: the optional diagnostic message.
NoMessage == [text |-> "None", attempts |-> 0]
FailedAfter(retries) == [text |-> "Failed after {retries} attempts", attempts |-> retries]

\* Mutant: the message is built for every outcome.
DeliveryOutcome_WithMessage(success, retries) ==
  [exc |-> "none", success |-> success, message |-> FailedAfter(retries)]

\* notification_service.py:152-155: the tuple send_with_retry returns.
DeliveryOutcome(success, retries) ==
  [exc |-> "none", success |-> success,
   message |-> IF success THEN NoMessage ELSE FailedAfter(retries)]

\* notification_service.py:150: an exception of the awaited loop leaves send_with_retry.
SendRaised == [exc |-> "raised", success |-> FALSE, message |-> NoMessage]

\* notification_service.py:138-150: send_with_retry(url, payload, retries) is
\* called with this behaviour's arguments and awaits the loop.
send_with_retry ==
  /\ lpc[Harness] = "idle"
  /\ thread = Free
  /\ ncalls < MaxCalls
  /\ ncalls' = ncalls + 1
  /\ thread' = {Harness}
  /\ wrapper' = FALSE
  /\ send' = [active |-> TRUE, ret |-> <<>>]
  /\ EnterLoop(Harness, target[Harness], max_retries[Harness])
  /\ UNCHANGED <<envVars, runnerVars, client, payload, endpoint, prev>>

\* notification_service.py:150-155: the loop has returned to send_with_retry,
\* which returns its tuple.
send_with_retry_return ==
  /\ lpc[Harness] \in {"done", "raised"}
  /\ thread = {Harness}
  /\ send.active
  /\ thread' = Free
  /\ send' = [active |-> FALSE,
              ret |-> <<IF lpc[Harness] = "raised" THEN SendRaised
                        ELSE DeliveryOutcome(result[Harness] = "true", max_retries[Harness])>>]
  /\ prev' = [result |-> IF lpc[Harness] = "raised" THEN "raised" ELSE result[Harness],
              posts |-> posts[Harness], waits |-> waits[Harness],
              sync |-> FALSE, open |-> client[Harness] = "open"]
  /\ LeaveLoop(Harness)
  /\ UNCHANGED <<envVars, runnerVars, client, payload, target, max_retries,
                 posts, result, received, endpoint, ncalls, wrapper>>

\* --------------------------------------------------- webhook endpoint
Secrets == {"abc", "abd"}

\* The task names of the projects: webhook call d is about project TaskOf(d).
TaskNames == <<<<"a", "-", "b">>, <<"A", " ", "b", "!">>, <<"B", "_", "2">>>>
TaskOf(d) == TaskNames[((d - 1) % Len(TaskNames)) + 1]
Emails == {<<"A", "@", "b", ".", "c">>}

\* The bodies webhook call d may carry: its nonce is unique to the call.
RequestsOf(d) ==
  [round : {1, 2}, secret : Secrets, valid : BOOLEAN, url : {"evaluation_url"},
   nonce : {d}, task : {TaskOf(d)}, email : Emails]
Requests == UNION {RequestsOf(d) : d \in Deps}

\* models.py:32-54: the Deployment object FastAPI hands to the handler; the
\* email validator returns v.lower().
Deployment(r) == [r EXCEPT !.email = lower(@)]

\* Mutant: the handler does not look at the configuration and compares at once.
ResponseStatus_NoConfigCheck(r) ==
  IF ~r.valid THEN 422
  ELSE IF ~validate_secret(r.secret, shared_secret) THEN 401
  ELSE 200

\* Mutant: the body is decoded inside the handler, after the authentication.
ResponseStatus_AuthFirst(r) ==
  IF shared_secret = "" THEN 500
  ELSE IF ~validate_secret(r.secret, shared_secret) THEN 401
  ELSE IF ~r.valid THEN 422
  ELSE 200

\* main.py:229-282 with FastAPI's schema decoding of the body in front of it:
\* the status answered to webhook call r.
ResponseStatus(r) ==
  IF ~r.valid THEN 422
  ELSE IF shared_secret = "" THEN 500
  ELSE IF ~validate_secret(r.secret, shared_secret) THEN 401
  ELSE 200

\* main.py:263: validate_secret is called for a decoded body once the server
\* secret was found configured.
SecretCompared(r) == r.valid /\ shared_secret # ""

\* Mutant: the task is added before the secret is compared.
BackgroundTasksOf_BeforeAuth(r) ==
  IF r.valid /\ shared_secret # "" THEN <<Deployment(r)>> ELSE <<>>

\* main.py:271: the tasks the handler adds for call r; Starlette runs them after
\* the response was sent.
BackgroundTasksOf(r) == IF ResponseStatus(r) = 200 THEN <<Deployment(r)>> ELSE <<>>

\* Mutant: the handler awaits process_deployment itself and answers afterwards.
deploy_endpoint_AwaitsRunner(d, r) ==
  /\ app = "serving"
  /\ pc[d] = "idle"
  /\ thread = Free
  /\ ncalls = 0            \* the process runs the server, not a script of direct calls
  /\ r.nonce = d
  /\ req' = [req EXCEPT ![d] = r]
  /\ resp' = [resp EXCEPT ![d] = IF ResponseStatus(r) = 200 THEN 0 ELSE ResponseStatus(r)]
  /\ compared' = [compared EXCEPT ![d] = SecretCompared(r)]
  /\ background' = [background EXCEPT ![d] = BackgroundTasksOf(r)]
  /\ pc' = [pc EXCEPT ![d] = IF BackgroundTasksOf(r) # <<>> THEN "generate_app_code" ELSE "rejected"]
  /\ thread' = IF BackgroundTasksOf(r) # <<>> THEN {d} ELSE Free
  /\ UNCHANGED <<envVars, waiting, failed, commit_sha, errlog, repo_name, hosted, opened, deliveries,
                 loopVars, harnessVars>>

\* main.py:229-282: one webhook call is handled and answered; the handler has no
\* await, the background task is only added (line 271).
deploy_endpoint(d, r) ==
  /\ app = "serving"
  /\ pc[d] = "idle"
  /\ thread = Free
  /\ ncalls = 0            \* the process runs the server, not a script of direct calls
  /\ r.nonce = d
  /\ req' = [req EXCEPT ![d] = r]
  /\ resp' = [resp EXCEPT ![d] = ResponseStatus(r)]
  /\ compared' = [compared EXCEPT ![d] = SecretCompared(r)]
  /\ background' = [background EXCEPT ![d] = BackgroundTasksOf(r)]
  /\ pc' = [pc EXCEPT ![d] = IF BackgroundTasksOf(r) # <<>> THEN "scheduled" ELSE "rejected"]
  /\ UNCHANGED <<thread, envVars, waiting, failed, commit_sha, errlog, repo_name, hosted, opened, deliveries,
                 loopVars, harnessVars>>

\* ------------------------------------------ process_deployment (Runner)
\* Steps that call the LLM API or the GitHub API: synchronous network calls.
NetworkSteps == {"generate_app_code", "generate_readme", "create_repository", "add_license",
                 "push_files", "enable_github_pages", "get_repo", "read_index_html",
                 "read_readme", "update_code_for_revision", "update_readme_for_revision"}

\* Steps made by a method of llm_service that goes through _make_api_call
\* (llm_service_aipipe.py:314, 340, 371, 399).
GenerationSteps == {"generate_app_code", "generate_readme", "update_code_for_revision",
                    "update_readme_for_revision"}

\* Mutant: every API call is made on a session of its own.
make_api_call_NewSession(o) ==
  llm_service' = [llm_service EXCEPT !.session = "requests.Session of this call",
                                     !.last_request_time = ClockReading]

\* The generation API: "responds" answers every request, be it with an error
\* status; with "any" a request may also time out or find no connection.
LLMApis == {"responds", "any"}

\* llm_service_aipipe.py:236-293 inside a generation method that ended with
\* outcome o: once session.post has returned a response, line 275 writes
\* self._last_request_time; a post that raised (the API did not answer), or a
\* failure before the call, leaves the field as it was.
make_api_call(o) ==
  \E t \in (IF o = "ok" \/ (o = "fallback" /\ llm_api = "responds") THEN {ClockReading}
            ELSE {llm_service.last_request_time, ClockReading}) :
    llm_service' = [llm_service EXCEPT !.last_request_time = t]

\* Mutant: the try block ends before the notification.
RunnerCatches_UntilReport(step) == step \notin {"open_channel", "notify_evaluation", "close_channel"}

\* main.py:200: `except Exception` around the whole body.
RunnerCatches(step) == TRUE

\* Mutant: the notification sits in a finally clause and runs after a failure too.
Throw_NotifyAnyway(d, step) ==
  /\ pc' = [pc EXCEPT ![d] = IF step \in {"open_channel", "close_channel", "notify_evaluation"}
                                THEN "done" ELSE "open_channel"]
  /\ failed' = [failed EXCEPT ![d] = step]
  /\ waiting' = [waiting EXCEPT ![d] = FALSE]
  /\ thread' = IF step \in {"open_channel", "close_channel", "notify_evaluation"}
                 THEN Free ELSE {d}

\* main.py:200-202: an exception thrown by `step` reaches the except clause (or
\* leaves the coroutine); nothing after the step is executed.
Throw(d, step) ==
  /\ pc' = [pc EXCEPT ![d] = IF RunnerCatches(step) THEN "done" ELSE "crashed"]
  /\ failed' = [failed EXCEPT ![d] = step]
  /\ waiting' = [waiting EXCEPT ![d] = FALSE]
  /\ thread' = Free

Goto(d, next) ==
  /\ pc' = [pc EXCEPT ![d] = next]
  /\ waiting' = [waiting EXCEPT ![d] = FALSE]
  /\ UNCHANGED <<thread, failed>>

\* A step that either returns or raises.
SimpleStep(d, step, next, ok) ==
  /\ pc[d] = step
  /\ thread = {d}
  /\ waiting[d] = (step \in NetworkSteps)
  /\ IF ok THEN Goto(d, next) ELSE Throw(d, step)
  /\ IF step \in GenerationSteps THEN TRUE ELSE UNCHANGED llm_service
  /\ UNCHANGED <<shared_secret, keep_log, helper, llm_api, app, github_service, hostVars, callVars,
                 opened, deliveries, loopVars, harnessVars>>

\* The background task is started after the response was sent (main.py:77-87).
RunnerStart(d) ==
  /\ pc[d] = "scheduled"
  /\ thread = Free
  /\ thread' = {d}
  /\ pc' = [pc EXCEPT ![d] = "generate_app_code"]
  /\ UNCHANGED <<envVars, callVars, waiting, failed, commit_sha, errlog, repo_name, hosted, opened, deliveries,
                 loopVars, harnessVars>>

\* The request of a synchronous network call is on the wire; the coroutine keeps
\* the event-loop thread while it waits for the answer (requests / PyGithub).
BeginCall(d) ==
  /\ pc[d] \in NetworkSteps
  /\ thread = {d}
  /\ ~waiting[d]
  /\ waiting' = [waiting EXCEPT ![d] = TRUE]
  /\ UNCHANGED <<thread, envVars, callVars, pc, failed, commit_sha, errlog, repo_name, hosted, opened, deliveries,
                 loopVars, harnessVars>>

\* The request object process_deployment was scheduled with (main.py:77, 271).
RunnerRequest(d) == background[d][1]

\* logger.error of a collaborator that absorbs its own failure
\* (llm_service_aipipe.py:319, 345, 378, 406; github_service.py:245, 290).
Logged(d, step, absorbed) ==
  errlog' = [errlog EXCEPT ![d] = IF keep_log /\ absorbed THEN @ \cup {step} ELSE @]

\* The name argument of a hosting call made by process_deployment.
HostingCall(d, name) ==
  hosted' = [hosted EXCEPT ![d] = IF keep_log THEN @ \cup {name} ELSE @]

\* llm_service_aipipe.py:295-321 and main.py:92: "fallback" is an API error
\* absorbed by the static fallback, "raise" an error outside the try or in the fallback.
GenOutcomes == {"ok", "fallback", "raise"}

\* Mutant: an API error of the generation call is raised to the Runner.
generate_app_code_NoFallback(d, o) ==
  /\ SimpleStep(d, "generate_app_code", "generate_readme", o = "ok")
  /\ Logged(d, "generate_app_code", o = "fallback")
  /\ make_api_call(o)
  /\ UNCHANGED <<commit_sha, repo_name, hosted>>

generate_app_code(d, o) ==
  /\ SimpleStep(d, "generate_app_code", "generate_readme", o # "raise")
  /\ Logged(d, "generate_app_code", o = "fallback")
  /\ make_api_call(o)
  /\ UNCHANGED <<commit_sha, repo_name, hosted>>

\* main.py:112: repo_name = sanitize_repo_name(request.task)
SetRepoName(d, done) ==
  repo_name' \in {[repo_name EXCEPT ![d] =
                     IF done THEN sanitize_repo_name(RunnerRequest(d).task, now) ELSE @] :
                  now \in Timestamps}

\* Mutant: the round test of main.py:114 is inverted.
generate_readme_WrongBranch(d, o) ==
  /\ SimpleStep(d, "generate_readme",
             IF RunnerRequest(d).round = 1 THEN "get_repo" ELSE "create_repository", o # "raise")
  /\ Logged(d, "generate_readme", o = "fallback")
  /\ make_api_call(o)
  /\ SetRepoName(d, o # "raise")
  /\ UNCHANGED <<commit_sha, hosted>>

\* llm_service_aipipe.py:323-347 and main.py:101-112
generate_readme(d, o) ==
  /\ SimpleStep(d, "generate_readme",
             IF RunnerRequest(d).round = 1 THEN "create_repository" ELSE "get_repo", o # "raise")
  /\ Logged(d, "generate_readme", o = "fallback")
  /\ make_api_call(o)
  /\ SetRepoName(d, o # "raise")
  /\ UNCHANGED <<commit_sha, hosted>>

\* Mutant: the repository is created under the task name as the request gives it.
create_repository_RawName(d, ok) ==
  /\ SimpleStep(d, "create_repository", "add_license", ok)
  /\ HostingCall(d, RunnerRequest(d).task)
  /\ UNCHANGED <<commit_sha, errlog, repo_name>>

\* github_service.py:90-133 and main.py:116: an existing repository is returned.
create_repository(d, ok) ==
  /\ SimpleStep(d, "create_repository", "add_license", ok)
  /\ HostingCall(d, repo_name[d])
  /\ UNCHANGED <<commit_sha, errlog, repo_name>>

\* github_service.py:211-246 and main.py:122: a GithubException is logged and
\* swallowed (line 245), any other exception leaves the method.
LicenseOutcomes == {"added", "exists", "github_error", "raise"}

\* Mutant: add_license re-raises a GitHub error like create_repository does.
add_license_Reraises(d, o) ==
  /\ HasTemplates(github_service) \/ o = "raise"
  /\ SimpleStep(d, "add_license", "push_files", o \notin {"raise", "github_error"})
  /\ Logged(d, "add_license", o = "github_error")
  /\ HostingCall(d, repo_name[d])
  /\ UNCHANGED <<commit_sha, repo_name>>

add_license(d, o) ==
  /\ HasTemplates(github_service) \/ o = "raise"
  /\ SimpleStep(d, "add_license", "push_files", o # "raise")
  /\ Logged(d, "add_license", o = "github_error")
  /\ HostingCall(d, repo_name[d])
  /\ UNCHANGED <<commit_sha, repo_name>>

\* github_service.py:153-209 and main.py:127/159: returns the latest commit sha.
push_files(d, ok, sha) ==
  /\ SimpleStep(d, "push_files",
                IF RunnerRequest(d).round = 1 THEN "enable_github_pages" ELSE "get_pages_url", ok)
  /\ commit_sha' = [commit_sha EXCEPT ![d] = IF ok THEN sha ELSE @]
  /\ HostingCall(d, repo_name[d])
  /\ UNCHANGED <<errlog, repo_name>>

\* Mutant: a failure of the pages API is raised to the Runner.
enable_github_pages_Raises(d, ok) ==
  /\ SimpleStep(d, "enable_github_pages", "get_repository_url", ok)
  /\ Logged(d, "enable_github_pages", ~ok)
  /\ HostingCall(d, repo_name[d])
  /\ UNCHANGED <<commit_sha, repo_name>>

\* github_service.py:248-292 and main.py:134: every exception is caught and
\* logged (~ok), the url is returned on both paths.
enable_github_pages(d, ok) ==
  /\ SimpleStep(d, "enable_github_pages", "get_repository_url", TRUE)
  /\ Logged(d, "enable_github_pages", ~ok)
  /\ HostingCall(d, repo_name[d])
  /\ UNCHANGED <<commit_sha, repo_name>>

\* main.py:139
get_repo(d, ok) ==
  /\ SimpleStep(d, "get_repo", "read_index_html", ok)
  /\ HostingCall(d, repo_name[d])
  /\ UNCHANGED <<commit_sha, errlog, repo_name>>

\* main.py:140
read_index_html(d, ok) ==
  /\ SimpleStep(d, "read_index_html", "read_readme", ok)
  /\ UNCHANGED <<commit_sha, errlog, repo_name, hosted>>

\* main.py:141
read_readme(d, ok) ==
  /\ SimpleStep(d, "read_readme", "update_code_for_revision", ok)
  /\ UNCHANGED <<commit_sha, errlog, repo_name, hosted>>

\* llm_service_aipipe.py:349-380 and main.py:144
update_code_for_revision(d, o) ==
  /\ SimpleStep(d, "update_code_for_revision", "update_readme_for_revision", o # "raise")
  /\ Logged(d, "update_code_for_revision", o = "fallback")
  /\ make_api_call(o)
  /\ UNCHANGED <<commit_sha, repo_name, hosted>>

\* llm_service_aipipe.py:382-408 and main.py:151
update_readme_for_revision(d, o) ==
  /\ SimpleStep(d, "update_readme_for_revision", "push_files", o # "raise")
  /\ Logged(d, "update_readme_for_revision", o = "fallback")
  /\ make_api_call(o)
  /\ UNCHANGED <<commit_sha, repo_name, hosted>>

\* github_service.py:347: get_pages_url reads self.username.
PagesUrlField == "username"

\* github_service.py:337-347 and main.py:165: reading an attribute that __init__
\* never assigned raises AttributeError.
get_pages_url(d) ==
  /\ SimpleStep(d, "get_pages_url", "get_repository_url", PagesUrlField \in GitHubFields)
  /\ HostingCall(d, repo_name[d])
  /\ UNCHANGED <<commit_sha, errlog, repo_name>>

\* github_service.py:325-335 and main.py:167: reads self.git_uname.
get_repository_url(d) ==
  /\ SimpleStep(d, "get_repository_url", "build_report", "git_uname" \in GitHubFields)
  /\ HostingCall(d, repo_name[d])
  /\ UNCHANGED <<commit_sha, errlog, repo_name>>

\* os.getenv("GITHUB_USERNAME") (github_service.py:39), required by __init__.
git_uname == <<"u">>

\* github_service.py:335: f"https://github.com/{self.git_uname}/{repo_name}"
RepositoryUrl(name) == <<"h", "t", "t", "p", "s", ":", "/", "/", "g", "i", "t", "h", "u", "b", ".", "c", "o", "m", "/">> \o git_uname \o <<"/">> \o name

\* github_service.py:285 / 292: f"https://{self.git_uname}.github.io/{repo_name}/"
PagesUrl(name) == <<"h", "t", "t", "p", "s", ":", "/", "/">> \o git_uname \o <<".", "g", "i", "t", "h", "u", "b", ".", "i", "o", "/">> \o name \o <<"/">>

\* `t in s` of two texts
Contains(s, t) == \E i \in 1..(Len(s) - Len(t) + 1) : SubSeq(s, i, i + Len(t) - 1) = t

\* models.py:107-113: 'github' in str(v).lower()
validate_github_urls(v) == Contains(lower(v), <<"g", "i", "t", "h", "u", "b">>)

\* models.py:76-113: what the constructor of EvaluationResponse accepts.
ReportValid(request, repo_url, sha, pages_url) ==
  /\ validate_sha_format(sha)
  /\ validate_github_urls(repo_url)
  /\ validate_github_urls(pages_url)

\* models.py:76-113: the object the constructor returns; the validators of
\* email and commit_sha return the lowercased value.
EvaluationResponse(request, repo_url, sha, pages_url) ==
  [email |-> lower(request.email), task |-> request.task, round |-> request.round,
   nonce |-> request.nonce, repo_url |-> HttpUrl(repo_url), commit_sha |-> lower_sha(sha),
   pages_url |-> HttpUrl(pages_url)]

\* main.py:189: model_dump(mode='json') turns every field into a JSON value.
model_dump(m) ==
  [email |-> Str(m.email), task |-> Str(m.task), round |-> Num(m.round),
   nonce |-> Str(m.nonce), repo_url |-> Str(m.repo_url.value),
   commit_sha |-> Str(m.commit_sha), pages_url |-> Str(m.pages_url.value)]

\* Mutant: the report is built from a request kept in a module-level variable,
\* which holds the request of some accepted call.
evaluation_data_SharedRequest(d) ==
  EvaluationResponse(RunnerRequest(CHOOSE e \in Deps : background[e] # <<>>),
                     RepositoryUrl(repo_name[d]), commit_sha[d], PagesUrl(repo_name[d]))

\* main.py:175-183: the local evaluation_data of deployment d, built from the
\* request and the locals repo_url, commit_sha and pages_url.
evaluation_data(d) ==
  EvaluationResponse(RunnerRequest(d), RepositoryUrl(repo_name[d]), commit_sha[d],
                     PagesUrl(repo_name[d]))

\* main.py:175-183 with models.py:76-113: the report is validated when built.
build_report(d) ==
  /\ SimpleStep(d, "build_report", "open_channel",
                ReportValid(RunnerRequest(d), RepositoryUrl(repo_name[d]), commit_sha[d],
                            PagesUrl(repo_name[d])))
  /\ UNCHANGED <<commit_sha, errlog, repo_name, hosted>>

\* main.py:186 with notification_service.py:25-45: NotificationService() and __aenter__.
open_channel(d, ok) ==
  /\ pc[d] = "open_channel"
  /\ thread = {d}
  /\ IF ok
       THEN /\ Goto(d, "notify_evaluation")
            /\ client' = [client EXCEPT ![d] = "open"]
            /\ opened' = [opened EXCEPT ![d] = @ + 1]
       ELSE /\ Throw(d, "open_channel")
            /\ UNCHANGED <<client, opened>>
  /\ UNCHANGED <<envVars, callVars, commit_sha, errlog, repo_name, hosted, deliveries, payload,
                 target, lpc,
                 max_retries, attempt, posts, waits, last, result, received, arrived, harnessVars>>

\* main.py:187-191: the loop is called with the request's evaluation_url, the
\* dumped report (mode='json': plain strings) and max_retries=5.
notify_evaluation(d) ==
  /\ pc[d] = "notify_evaluation"
  /\ thread = {d}
  /\ lpc[d] = "idle"
  /\ EnterLoop(d, RunnerRequest(d).url, RunnerMaxRetries)
  /\ payload' = [payload EXCEPT ![d] = model_dump(evaluation_data(d))]
  /\ deliveries' = [deliveries EXCEPT ![d] = @ + 1]
  /\ pc' = [pc EXCEPT ![d] = "close_channel"]
  /\ UNCHANGED <<thread, envVars, callVars, waiting, failed, commit_sha, errlog, repo_name, hosted, opened,
                 client, harnessVars>>

\* Mutant: the scope exit leaves the client as it is.
aexit_NoClose(cl) == cl

\* notification_service.py:47-50: __aexit__ closes the client if there is one.
aexit(cl) == IF cl = "open" THEN "closed" ELSE cl

\* Mutant: a failed delivery is started again.
close_channel_Redeliver(d, ok) ==
  /\ pc[d] = "close_channel"
  /\ thread = {d}
  /\ lpc[d] \in {"done", "raised"}
  /\ client' = [client EXCEPT ![d] = aexit(@)]
  /\ LeaveLoop(d)
  /\ payload' = [payload EXCEPT ![d] = NoPayload]
  /\ IF ~ok THEN Throw(d, "close_channel")
     ELSE IF lpc[d] = "raised" THEN Throw(d, "notify_evaluation")
     ELSE /\ pc' = [pc EXCEPT ![d] = IF result[d] = "false" /\ deliveries[d] < 2
                                       THEN "open_channel" ELSE "done"]
          /\ thread' = IF result[d] = "false" /\ deliveries[d] < 2 THEN {d} ELSE Free
          /\ UNCHANGED <<waiting, failed>>
  /\ UNCHANGED <<envVars, callVars, commit_sha, errlog, repo_name, hosted, opened, deliveries, target,
                 max_retries, posts, result, received, harnessVars>>

\* main.py:186-198 with notification_service.py:47-50: the loop has returned or
\* raised, __aexit__ closes the client, the outcome is logged and the task ends;
\* the dumped report was an argument of the call and is gone with it.
close_channel(d, ok) ==
  /\ pc[d] = "close_channel"
  /\ thread = {d}
  /\ lpc[d] \in {"done", "raised"}
  /\ client' = [client EXCEPT ![d] = aexit(@)]
  /\ LeaveLoop(d)
  /\ payload' = [payload EXCEPT ![d] = NoPayload]
  /\ IF ~ok THEN Throw(d, "close_channel")
     ELSE IF lpc[d] = "raised" THEN Throw(d, "notify_evaluation")
     ELSE /\ pc' = [pc EXCEPT ![d] = "done"]
          /\ thread' = Free
          /\ UNCHANGED <<waiting, failed>>
  /\ UNCHANGED <<envVars, callVars, commit_sha, errlog, repo_name, hosted, opened, deliveries, target,
                 max_retries, posts, result, received, harnessVars>>

\* The task of caller c is cancelled while it is suspended in client.post or
\* asyncio.sleep (notification_service.py:80, 133): CancelledError is raised at
\* the await; it is no Exception, so no except clause of the loop handles it.
Cancel(c) ==
  /\ lpc[c] \in {"posting", "sleeping"}
  /\ thread = Free
  /\ ExceptClause("cancelled") = "propagates"
  /\ thread' = {c}
  /\ lpc' = [lpc EXCEPT ![c] = "cancelled"]
  /\ last' = [last EXCEPT ![c] = Raised("cancelled")]
  /\ UNCHANGED <<envVars, runnerVars, client, payload, target, max_retries, attempt, posts,
                 waits, result, received, arrived, harnessVars>>

\* main.py:186-200 with notification_service.py:47-50: CancelledError leaves the
\* `async with` block, __aexit__ closes the client, and the error passes the
\* `except Exception` of process_deployment.
cancel_exit(d) ==
  /\ pc[d] = "close_channel"
  /\ thread = {d}
  /\ lpc[d] = "cancelled"
  /\ client' = [client EXCEPT ![d] = aexit(@)]
  /\ LeaveLoop(d)
  /\ payload' = [payload EXCEPT ![d] = NoPayload]
  /\ pc' = [pc EXCEPT ![d] = "cancelled"]
  /\ thread' = Free
  /\ UNCHANGED <<envVars, callVars, waiting, failed, commit_sha, errlog, repo_name, hosted, opened, deliveries,
                 target, max_retries, posts, result, received, harnessVars>>

\* Mutant: __aenter__ makes a client only when the service has none.
aenter_OnlyFirst(cl) == IF cl = "none" THEN "open" ELSE cl

\* notification_service.py:38-45: __aenter__ gives the service a new client.
aenter(cl) == "open"

\* notification_service.py:188-207: SyncNotificationService.notify_evaluation
\* (url, data, max_retries) starts asyncio.run(_notify()): __aenter__ gives the
\* wrapped service a new client and the loop is entered. asyncio.run needs a
\* thread without a running event loop: the process is not serving.
SyncCall(n, e, p) ==
  /\ lpc[Harness] = "idle"
  /\ thread = Free
  /\ \A d \in Deps : pc[d] = "idle"
  /\ ncalls < MaxCalls
  /\ ncalls' = ncalls + 1
  /\ thread' = {Harness}
  /\ endpoint' = e
  /\ wrapper' = TRUE
  /\ client' = [client EXCEPT ![Harness] = aenter(@)]
  /\ payload' = [payload EXCEPT ![Harness] = p]
  /\ EnterLoop(Harness, "test_url", n)
  /\ UNCHANGED <<envVars, runnerVars, prev, send>>

\* notification_service.py:202-207: the loop returned, raised or was cancelled;
\* __aexit__ runs and asyncio.run hands the outcome to the caller.
SyncReturn ==
  /\ lpc[Harness] \in {"done", "raised", "cancelled"}
  /\ thread = {Harness}
  /\ wrapper
  /\ thread' = Free
  /\ client' = [client EXCEPT ![Harness] = aexit(@)]
  /\ prev' = [result |-> IF lpc[Harness] = "done" THEN result[Harness] ELSE lpc[Harness],
              posts |-> posts[Harness], waits |-> waits[Harness],
              sync |-> TRUE, open |-> client[Harness] = "open"]
  /\ LeaveLoop(Harness)
  /\ UNCHANGED <<envVars, runnerVars, payload, target, max_retries, posts, result, received,
                 endpoint, ncalls, wrapper, send>>

\* The wrapper is called with the arguments of this behaviour's direct calls.
WrapperCall == SyncCall(max_retries[Harness], endpoint, payload[Harness])

\* ------------------------------------------------ GitHubService (hosting)
\* Names that sanitize_repo_name hands to the hosting collaborator.
RepoNames == {"demo-app", "notes-app"}

\* One call of the GitHub API: answered, failed with a GithubException whose
\* status is not 404, or failed below the API (connection error).
ApiOutcomes == {"ok", "github_error", "transport_error"}

\* setup.clean: no API call of the setup failed for a reason of its own.
NoSetup == [name |-> "none", step |-> "idle", ret |-> "none", clean |-> TRUE]

\* Mutant: create_repository does not look the name up first.
RepoLookup_Skipped(n, o) == "404"

\* github_service.py:108 / 226: self.user.get_repo(n), an unknown name is a
\* GithubException with status 404.
RepoLookup(n, o) ==
  IF o # "ok" THEN o ELSE IF repos[n] = "absent" THEN "404" ELSE "found"

\* Mutant: add_license does not look for an existing LICENSE.
LicenseLookup_Skipped(n, o) == "404"

\* github_service.py:229: repo.get_contents("LICENSE")
LicenseLookup(n, o) ==
  IF o # "ok" THEN o ELSE IF repos[n] = "licensed" THEN "found" ELSE "404"

\* main.py:112-116: a round-1 pipeline reaches the repository setup for name n.
StartSetup(n) ==
  /\ setup.step = "idle"
  /\ push.step = "idle"
  /\ nruns < MaxRuns
  /\ nruns' = nruns + 1
  /\ setup' = [name |-> n, step |-> "create_repository", ret |-> "none", clean |-> TRUE]
  /\ UNCHANGED <<repos, created, licensed, clean_runs, pushVars, serverVars>>

\* The setup ends with an exception that is raised to process_deployment.
SetupRaises(ok) ==
  /\ setup' = [setup EXCEPT !.step = "idle", !.ret = "raised", !.clean = @ /\ ok]
  /\ UNCHANGED <<repos, created, licensed, clean_runs>>

\* github_service.py:90-133: the lookup and, after a 404, create_repo; the
\* API refuses (422) to create a name that exists.
GitHubService_create_repository(lookup, create) ==
  /\ setup.step = "create_repository"
  /\ LET n == setup.name
         found == RepoLookup(n, lookup)
     IN  IF found = "found"
           THEN /\ setup' = [setup EXCEPT !.step = "add_license", !.ret = "existing"]
                /\ UNCHANGED <<repos, created, licensed, clean_runs>>
         ELSE IF found = "404" /\ create = "ok" /\ repos[n] = "absent"
           THEN /\ repos' = [repos EXCEPT ![n] = "empty"]
                /\ created' = [created EXCEPT ![n] = @ + 1]
                /\ setup' = [setup EXCEPT !.step = "add_license", !.ret = "created"]
                /\ UNCHANGED <<licensed, clean_runs>>
         ELSE SetupRaises(lookup = "ok" /\ create = "ok")
  /\ UNCHANGED <<nruns, pushVars, serverVars>>

\* The setup step returns to process_deployment after add_license; a run
\* without a failing call counts as clean.
SetupReturns(ret, ok) ==
  /\ setup' = [setup EXCEPT !.step = "idle", !.ret = ret, !.clean = @ /\ ok]
  /\ clean_runs' = [clean_runs EXCEPT ![setup.name] = IF setup.clean /\ ok THEN @ + 1 ELSE @]

\* github_service.py:211-246: get_repo, get_contents("LICENSE") and, after a
\* 404, create_file; a GithubException is logged, anything else is raised.
GitHubService_add_license(lookup, contents, write) ==
  /\ setup.step = "add_license"
  /\ LET n == setup.name
         repo == RepoLookup(n, lookup)
         existing == LicenseLookup(n, contents)
     IN  IF "templates" \notin GitHubFields THEN SetupRaises(TRUE)
         ELSE IF repo = "transport_error" THEN SetupRaises(FALSE)
         ELSE IF repo # "found"
           THEN SetupReturns("logged", lookup = "ok") /\ UNCHANGED <<repos, created, licensed>>
         ELSE IF existing = "transport_error" THEN SetupRaises(FALSE)
         ELSE IF existing = "found"
           THEN SetupReturns("returned", TRUE) /\ UNCHANGED <<repos, created, licensed>>
         ELSE IF existing # "404"
           THEN SetupReturns("logged", FALSE) /\ UNCHANGED <<repos, created, licensed>>
         ELSE IF write = "transport_error" THEN SetupRaises(FALSE)
         ELSE IF write = "ok" /\ repos[n] # "licensed"
           THEN /\ repos' = [repos EXCEPT ![n] = "licensed"]
                /\ licensed' = [licensed EXCEPT ![n] = @ + 1]
                /\ SetupReturns("returned", TRUE)
                /\ UNCHANGED created
         ELSE SetupReturns("logged", write = "ok") /\ UNCHANGED <<repos, created, licensed>>
  /\ commits' = [n \in RepoNames |-> commits[n] + (licensed'[n] - licensed[n])]
  /\ UNCHANGED <<nruns, files, push, serverVars>>

\* ---------------------------------------------------- push_files (hosting)
\* main.py:125 / 157: the files dictionary handed to push_files, in its
\* iteration order; a direct caller may pass a single file.
FileLists == {<<"README.md">>, <<"index.html", "README.md">>}

NoPush == [name |-> "none", step |-> "idle", todo |-> <<>>, base |-> 0, ret |-> 0,
           raised |-> FALSE, calls |-> {}]

\* github_service.py:153-172: push_files(n, fs, message) is called.
StartPush(n, fs) ==
  /\ setup.step = "idle"
  /\ push.step = "idle"
  /\ nruns < MaxRuns
  /\ nruns' = nruns + 1
  /\ push' = [name |-> n, step |-> "get_repo", todo |-> fs, base |-> commits[n], ret |-> 0,
              raised |-> FALSE, calls |-> {}]
  /\ UNCHANGED <<repos, created, licensed, setup, clean_runs, commits, files, serverVars>>

\* github_service.py:207-209 (or an exception that is no GithubException):
\* push_files raises to its caller.
Raise(p) == [p EXCEPT !.step = "idle", !.todo = <<>>, !.raised = TRUE]
PushRaises == push' = Raise(push)

\* github_service.py:172: self.user.get_repo(repo_name)
push_get_repo(lookup) ==
  /\ push.step = "get_repo"
  /\ IF RepoLookup(push.name, lookup) = "found"
       THEN push' = [push EXCEPT !.step = IF push.todo = <<>> THEN "get_commits" ELSE "file"]
       ELSE PushRaises
  /\ UNCHANGED <<repos, created, licensed, setup, nruns, clean_runs, commits, files, serverVars>>

\* github_service.py:176: repo.get_contents(filepath); a path that is not in
\* the repository is a GithubException with status 404.
ContentsLookup(n, path, o) ==
  IF o # "ok" THEN o ELSE IF path \in files[n] THEN "found" ELSE "404"

\* The file of this iteration is written: next file, or the end of the loop.
Advance(p) ==
  [p EXCEPT !.todo = Tail(@), !.step = IF Len(p.todo) = 1 THEN "get_commits" ELSE "file"]
NextFile == push' = Advance(push)

\* github_service.py:178-184 / 189-194: update_file and create_file of the
\* contents API each make a commit of their own on branch main.
FileCommit(n, path) ==
  /\ commits' = [commits EXCEPT ![n] = @ + 1]
  /\ files' = [files EXCEPT ![n] = @ \cup {path}]

\* A write call of the contents API made for `path`, and what the lookup of
\* line 176 had answered before it.
WriteCall(path, call, lookup) == [path |-> path, call |-> call, lookup |-> lookup]
Called(p, cs) == [p EXCEPT !.calls = @ \cup cs]

\* github_service.py:174-197: one iteration of the loop over files.items():
\* get_contents, then update_file; every GithubException of the two (line 188
\* compares the exception with 404, which never holds) leads to create_file,
\* which the API refuses (422) for a path that exists. An exception that is no
\* GithubException leaves the method at once.
push_file(contents, update, create) ==
  /\ push.step = "file"
  /\ LET n == push.name
         path == Head(push.todo)
         existing == ContentsLookup(n, path, contents)
         by_update == {WriteCall(path, "update_file", existing)}
         by_create == {WriteCall(path, "create_file", existing)}
     IN  IF existing = "transport_error"
           THEN PushRaises /\ UNCHANGED <<commits, files>>
         ELSE IF existing = "found" /\ update = "transport_error"
           THEN push' = Raise(Called(push, by_update)) /\ UNCHANGED <<commits, files>>
         ELSE IF existing = "found" /\ update = "ok"
           THEN FileCommit(n, path) /\ push' = Advance(Called(push, by_update))
         ELSE LET made == IF existing = "found" THEN by_update \cup by_create ELSE by_create
              IN  IF create = "ok" /\ path \notin files[n]
                    THEN FileCommit(n, path) /\ push' = Advance(Called(push, made))
                    ELSE push' = Raise(Called(push, made)) /\ UNCHANGED <<commits, files>>
  /\ UNCHANGED <<repos, created, licensed, setup, nruns, clean_runs, serverVars>>

\* github_service.py:200-205: repo.get_commits()[0].sha, the latest commit of
\* the repository, is returned; an empty repository has no commit to list.
push_get_commits(o) ==
  /\ push.step = "get_commits"
  /\ IF o = "ok" /\ commits[push.name] > 0
       THEN push' = [push EXCEPT !.step = "idle", !.ret = commits[push.name]]
       ELSE PushRaises
  /\ UNCHANGED <<repos, created, licensed, setup, nruns, clean_runs, commits, files, serverVars>>

\* No setup has been run; the counters count what this service does.
IdleHosting ==
  /\ created = [n \in RepoNames |-> 0]
  /\ licensed = [n \in RepoNames |-> 0]
  /\ setup = NoSetup
  /\ nruns = 0
  /\ clean_runs = [n \in RepoNames |-> 0]
  /\ commits = [n \in RepoNames |-> IF repos[n] = "licensed" THEN 1 ELSE 0]
  /\ files = [n \in RepoNames |-> {}]
  /\ push = NoPush

IdleRunners ==
  /\ req = [d \in Deps |-> NoReq]
  /\ resp = [d \in Deps |-> 0]
  /\ compared = [d \in Deps |-> FALSE]
  /\ background = [d \in Deps |-> <<>>]
  /\ errlog = [d \in Deps |-> {}]
  /\ repo_name = [d \in Deps |-> NoName]
  /\ hosted = [d \in Deps |-> {}]
  /\ pc = [d \in Deps |-> "idle"]
  /\ waiting = [d \in Deps |-> FALSE]
  /\ failed = [d \in Deps |-> "none"]
  /\ commit_sha = [d \in Deps |-> NoSha]
  /\ opened = [d \in Deps |-> 0]
  /\ deliveries = [d \in Deps |-> 0]

IdleLoops ==
  /\ lpc = [c \in Callers |-> "idle"]
  /\ attempt = [c \in Callers |-> 0]
  /\ posts = [c \in Callers |-> 0]
  /\ waits = [c \in Callers |-> <<>>]
  /\ last = [c \in Callers |-> NoOutcome]
  /\ result = [c \in Callers |-> "none"]
  /\ received = [c \in Callers |-> 0]
  /\ arrived = [c \in Callers |-> FALSE]

\* Direct calls: any max_retries, endpoint behaviour, channel state and payload.
InitLoop ==
  /\ thread = Free
  /\ shared_secret = "abc"
  /\ keep_log = FALSE
  /\ repos = [n \in RepoNames |-> "absent"]
  /\ IdleHosting
  /\ helper = NoHelper
  /\ llm_service = LLMServiceAIPipe
  /\ llm_api = "responds"
  /\ app = "serving"
  /\ github_service = GitHubService
  /\ IdleRunners
  /\ IdleLoops
  /\ \E n \in 1..MaxRetriesArg, cl \in {"none", "open", "closed"},
        p \in TestPayloads :
       /\ max_retries = [c \in Callers |-> IF c = Harness THEN n ELSE 0]
       /\ client = [c \in Callers |-> IF c = Harness THEN cl ELSE "none"]
       /\ payload = [c \in Callers |-> IF c = Harness THEN p ELSE NoPayload]
  /\ target = [c \in Callers |-> IF c = Harness THEN "test_url" ELSE "none"]
  /\ endpoint \in Endpoints
  /\ ncalls = 0
  /\ prev = NoCall
  /\ wrapper = FALSE
  /\ send = NoSend

NextLoop ==
  \/ HarnessCall
  \/ LoopTry(Harness)
  \/ Receive(Harness)
  \/ \E o \in Outcomes : PostReturn(Harness, o)
  \/ Wake(Harness)
  \/ HarnessReturn

SpecLoop == InitLoop /\ [][NextLoop]_vars

\* The same harness with both ways of calling the loop: directly on the
\* service, and through SyncNotificationService, with the same arguments.
NextWrapper ==
  \/ HarnessCall
  \/ WrapperCall
  \/ LoopTry(Harness)
  \/ Receive(Harness)
  \/ \E o \in Outcomes : PostReturn(Harness, o)
  \/ Wake(Harness)
  \/ HarnessReturn
  \/ SyncReturn

SpecWrapper == InitLoop /\ [][NextWrapper]_vars

\* Calls of send_with_retry: any retries argument, zero and negative ones too.
RetriesArgs == {-1, 0} \cup 1..MaxRetriesArg

InitSend ==
  /\ thread = Free
  /\ shared_secret = "abc"
  /\ keep_log = FALSE
  /\ repos = [n \in RepoNames |-> "absent"]
  /\ IdleHosting
  /\ helper = NoHelper
  /\ llm_service = LLMServiceAIPipe
  /\ llm_api = "responds"
  /\ app = "serving"
  /\ github_service = GitHubService
  /\ IdleRunners
  /\ IdleLoops
  /\ \E n \in RetriesArgs, cl \in {"none", "open", "closed"}, p \in TestPayloads :
       /\ max_retries = [c \in Callers |-> IF c = Harness THEN n ELSE 0]
       /\ client = [c \in Callers |-> IF c = Harness THEN cl ELSE "none"]
       /\ payload = [c \in Callers |-> IF c = Harness THEN p ELSE NoPayload]
  /\ target = [c \in Callers |-> IF c = Harness THEN "test_url" ELSE "none"]
  /\ endpoint \in Endpoints
  /\ ncalls = 0
  /\ prev = NoCall
  /\ wrapper = FALSE
  /\ send = NoSend

NextSend ==
  \/ send_with_retry
  \/ LoopTry(Harness)
  \/ Receive(Harness)
  \/ \E o \in Outcomes : PostReturn(Harness, o)
  \/ Wake(Harness)
  \/ send_with_retry_return

SpecSend == InitSend /\ [][NextSend]_vars

\* The server: webhook calls arrive, each accepted one gets a Runner.
Init ==
  /\ thread = Free
  /\ shared_secret \in {"", "abc"}
  /\ keep_log = FALSE
  /\ repos = [n \in RepoNames |-> "absent"]
  /\ IdleHosting
  /\ helper = NoHelper
  /\ llm_service = LLMServiceAIPipe
  /\ llm_api = "responds"
  /\ app = "serving"
  /\ github_service = GitHubService
  /\ IdleRunners
  /\ IdleLoops
  /\ max_retries = [c \in Callers |-> 0]
  /\ client = [c \in Callers |-> "none"]
  /\ payload = [c \in Callers |-> NoPayload]
  /\ target = [c \in Callers |-> "none"]
  /\ endpoint = "any"
  /\ ncalls = 0
  /\ prev = NoCall
  /\ wrapper = FALSE
  /\ send = NoSend

\* Every step of the Runner of deployment d (main.py:77-202 with the loop of
\* notification_service.py:66-136).
RunnerStep(d) ==
  \/ RunnerStart(d)
  \/ BeginCall(d)
  \/ \E o \in GenOutcomes : generate_app_code(d, o)
  \/ \E o \in GenOutcomes : generate_readme(d, o)
  \/ \E ok \in BOOLEAN : create_repository(d, ok)
  \/ \E o \in LicenseOutcomes : add_license(d, o)
  \/ \E ok \in BOOLEAN, sha \in ShaValues : push_files(d, ok, sha)
  \/ \E ok \in BOOLEAN : enable_github_pages(d, ok)
  \/ \E ok \in BOOLEAN : get_repo(d, ok)
  \/ \E ok \in BOOLEAN : read_index_html(d, ok)
  \/ \E ok \in BOOLEAN : read_readme(d, ok)
  \/ \E o \in GenOutcomes : update_code_for_revision(d, o)
  \/ \E o \in GenOutcomes : update_readme_for_revision(d, o)
  \/ get_pages_url(d)
  \/ get_repository_url(d)
  \/ build_report(d)
  \/ \E ok \in BOOLEAN : open_channel(d, ok)
  \/ notify_evaluation(d)
  \/ LoopTry(d)
  \/ \E o \in EvaluatorAnswers : PostReturn(d, o)
  \/ Wake(d)
  \/ \E ok \in BOOLEAN : close_channel(d, ok)

\* Every step of the webhook call and the Runner of deployment d.
DeploymentStep(d) ==
  \/ \E r \in RequestsOf(d) : deploy_endpoint(d, r)
  \/ RunnerStep(d)

Next == \E d \in Deps : DeploymentStep(d)

Spec == Init /\ [][Next]_vars


\* One process followed in detail: it either serves one webhook call, whose
\* Runner may be cancelled and whose absorbed failures are kept in errlog, or it
\* is a script that calls the sync wrapper.
OneDep == {NumDeps}

InitSingle ==
  /\ thread = Free
  /\ shared_secret = "abc"
  /\ keep_log = TRUE
  /\ repos = [n \in RepoNames |-> "absent"]
  /\ IdleHosting
  /\ helper = NoHelper
  /\ llm_service = LLMServiceAIPipe
  /\ llm_api = "any"
  /\ app = "serving"
  /\ github_service = GitHubService
  /\ IdleRunners
  /\ IdleLoops
  /\ max_retries = [c \in Callers |-> 0]
  /\ client = [c \in Callers |-> "none"]
  /\ payload = [c \in Callers |-> NoPayload]
  /\ target = [c \in Callers |-> "none"]
  /\ endpoint = "any"
  /\ ncalls = 0
  /\ prev = NoCall
  /\ wrapper = FALSE
  /\ send = NoSend

NextSingle ==
  \/ \E d \in OneDep : DeploymentStep(d)
  \/ \E d \in OneDep, sha \in UpperShaValues : push_files(d, TRUE, sha)
  \/ \E d \in OneDep : Cancel(d)
  \/ \E d \in OneDep : cancel_exit(d)
  \/ \E n \in 1..MaxRetriesArg, e \in Endpoints, p \in TestPayloads : SyncCall(n, e, p)
  \/ LoopTry(Harness)
  \/ \E o \in Outcomes : PostReturn(Harness, o)
  \/ Wake(Harness)
  \/ Cancel(Harness)
  \/ SyncReturn

SpecSingle == InitSingle /\ [][NextSingle]_vars

\* The server with one webhook call, whose Runner may be cancelled, when every
\* call returns: a Runner that can take a step takes one. A scheduled task is
\* started by the event loop, a collaborator call, the POST and asyncio.sleep
\* come back or raise, and the code between two calls runs on.
NextRunner ==
  \/ \E d \in OneDep : DeploymentStep(d)
  \/ \E d \in OneDep : Cancel(d)
  \/ \E d \in OneDep : cancel_exit(d)

FairSpec ==
  /\ Init /\ [][NextRunner]_vars
  /\ \A d \in OneDep : WF_vars(RunnerStep(d) \/ cancel_exit(d))

\* main.py:41-62: startup. LLMServiceAIPipe() and GitHubService() are called in
\* this order; an exception of either is logged and re-raised, so the
\* application does not start; otherwise lifespan yields and requests are served.
lifespan(lo, go) ==
  /\ app = "starting"
  /\ llm_service' = IF lo = "ok" THEN LLMServiceAIPipe ELSE llm_service
  /\ github_service' = IF lo # "ok" \/ go = "raises" THEN github_service
                        ELSE IF go = "ok" THEN GitHubService ELSE GitHubService_NoTemplates
  /\ app' = IF lo = "ok" /\ go # "raises" THEN "serving" ELSE "failed"
  /\ UNCHANGED <<thread, shared_secret, keep_log, helper, llm_api, hostVars, runnerVars,
                 loopVars, harnessVars>>

\* main.py:215-226: GET /health reports for each global whether it is not None.
health_check ==
  /\ app = "serving"
  /\ thread = Free
  /\ helper' = [fn |-> "health_check", args |-> <<>>,
                ret |-> <<[llm |-> llm_service # None, github |-> github_service # None]>>]
  /\ UNCHANGED <<thread, shared_secret, keep_log, llm_api, app, clientVars, hostVars, runnerVars,
                 loopVars, harnessVars>>

\* The process from its start: lifespan, then one webhook call with its Runner
\* and health requests.
InitStartup ==
  /\ thread = Free
  /\ shared_secret \in {"", "abc"}
  /\ keep_log = FALSE
  /\ repos = [n \in RepoNames |-> "absent"]
  /\ IdleHosting
  /\ helper = NoHelper
  /\ llm_service = None
  /\ github_service = None
  /\ llm_api = "responds"
  /\ app = "starting"
  /\ IdleRunners
  /\ IdleLoops
  /\ max_retries = [c \in Callers |-> 0]
  /\ client = [c \in Callers |-> "none"]
  /\ payload = [c \in Callers |-> NoPayload]
  /\ target = [c \in Callers |-> "none"]
  /\ endpoint = "any"
  /\ ncalls = 0
  /\ prev = NoCall
  /\ wrapper = FALSE
  /\ send = NoSend

NextStartup ==
  \/ \E lo \in LLMInits, go \in GitHubInits : lifespan(lo, go)
  \/ health_check
  \/ \E d \in OneDep : DeploymentStep(d)

SpecStartup == InitStartup /\ [][NextStartup]_vars

\* The hosting collaborator against the repository store: round-1 setups
\* (create_repository, then add_license) of one server, one after the other,
\* on names that may exist already.
InitHosting ==
  /\ thread = Free
  /\ shared_secret = "abc"
  /\ keep_log = FALSE
  /\ repos \in [RepoNames -> {"absent", "empty", "licensed"}]
  /\ IdleHosting
  /\ helper = NoHelper
  /\ llm_service = LLMServiceAIPipe
  /\ llm_api = "responds"
  /\ app = "serving"
  /\ github_service = GitHubService
  /\ IdleRunners
  /\ IdleLoops
  /\ max_retries = [c \in Callers |-> 0]
  /\ client = [c \in Callers |-> "none"]
  /\ payload = [c \in Callers |-> NoPayload]
  /\ target = [c \in Callers |-> "none"]
  /\ endpoint = "any"
  /\ ncalls = 0
  /\ prev = NoCall
  /\ wrapper = FALSE
  /\ send = NoSend

NextHosting ==
  \/ \E n \in RepoNames : StartSetup(n)
  \/ \E lookup, create \in ApiOutcomes : GitHubService_create_repository(lookup, create)
  \/ \E lookup, contents, write \in ApiOutcomes :
       GitHubService_add_license(lookup, contents, write)
  \/ \E n \in RepoNames, fs \in FileLists : StartPush(n, fs)
  \/ \E lookup \in ApiOutcomes : push_get_repo(lookup)
  \/ \E contents, update, create \in ApiOutcomes : push_file(contents, update, create)
  \/ \E o \in ApiOutcomes : push_get_commits(o)

SpecHosting == InitHosting /\ [][NextHosting]_vars

\* The functions of utils/helpers.py on their own: one call of
\* sanitize_repo_name on a task name, or the authentication of one webhook call.
MaxTaskLen == 3
MaxSecretLen == 3

\* All texts over an alphabet, up to a length.
Texts(alphabet, n) == UNION {[1..k -> alphabet] : k \in 0..n}

\* Task names: short ones, and ones whose sanitized form is cut at line 116.
TaskAlphabet == {"a", "A", "1", "-", " ", "!"}
ShortTasks == Texts(TaskAlphabet, MaxTaskLen)
Pad(k) == [i \in 1..k |-> "a"]
TaskInputs ==
  ShortTasks \cup {Pad(k) \o t : k \in (MaxNameLength - 2)..MaxNameLength, t \in ShortTasks}

\* os.getenv("SHARED_SECRET") and the secret of a decoded body (models.py:39:
\* min_length=1), as byte strings.
ExpectedSecrets == Texts({"a", "b", "c"}, MaxSecretLen)
ProvidedSecrets == Texts({"a", "b", "c", "d"}, MaxSecretLen) \ {<<>>}

\* main.py:255-268: the authentication of a decoded body: the status it leads
\* to and the byte positions its comparison examined.
Authenticate(provided, expected) ==
  IF expected = <<>> THEN [status |-> 500, examined |-> 0]
  ELSE LET v == validate_secret_bytes(provided, expected)
       IN  [status |-> IF v.equal THEN 200 ELSE 401, examined |-> v.examined]

HelperCalls ==
  {[fn |-> "sanitize_repo_name", args |-> <<t>>, ret |-> <<>>] : t \in TaskInputs}
  \cup {[fn |-> "validate_secret", args |-> <<p, e>>, ret |-> <<>>] :
          p \in ProvidedSecrets, e \in ExpectedSecrets}

InitHelpers ==
  /\ thread = Free
  /\ shared_secret = "abc"
  /\ keep_log = FALSE
  /\ repos = [n \in RepoNames |-> "absent"]
  /\ IdleHosting
  /\ IdleRunners
  /\ IdleLoops
  /\ max_retries = [c \in Callers |-> 0]
  /\ client = [c \in Callers |-> "none"]
  /\ payload = [c \in Callers |-> NoPayload]
  /\ target = [c \in Callers |-> "none"]
  /\ endpoint = "any"
  /\ ncalls = 0
  /\ prev = NoCall
  /\ wrapper = FALSE
  /\ send = NoSend
  /\ helper \in HelperCalls
  /\ llm_service = LLMServiceAIPipe
  /\ llm_api = "responds"
  /\ app = "serving"
  /\ github_service = GitHubService

\* models.py:36: the rounds of a task.
Rounds == {1, 2}

\* helpers.py:82-120, called at main.py:112 by the deployment of each round of
\* the task: ret[k] is what the call of round k returned.
sanitize_call ==
  /\ helper.fn = "sanitize_repo_name" /\ Len(helper.ret) < Cardinality(Rounds)
  /\ \E now \in Timestamps :
       helper' = [helper EXCEPT !.ret = Append(@, sanitize_repo_name(helper.args[1], now))]
  /\ UNCHANGED <<thread, shared_secret, keep_log, llm_api, app, clientVars, hostVars, runnerVars,
                 loopVars, harnessVars>>

\* main.py:255-268
authenticate_call ==
  /\ helper.fn = "validate_secret" /\ helper.ret = <<>>
  /\ helper' = [helper EXCEPT !.ret = <<Authenticate(helper.args[1], helper.args[2])>>]
  /\ UNCHANGED <<thread, shared_secret, keep_log, llm_api, app, clientVars, hostVars, runnerVars,
                 loopVars, harnessVars>>

NextHelpers ==
  \/ sanitize_call
  \/ authenticate_call

SpecHelpers == InitHelpers /\ [][NextHelpers]_vars

\* ================================================================ claims
\* The schedule of the specification: 1, 2, 4, 8, 16 seconds, then 16.
ScheduledWait(i) ==
  IF i = 0 THEN 1 ELSE IF i = 1 THEN 2 ELSE IF i = 2 THEN 4 ELSE IF i = 3 THEN 8 ELSE 16

InLoop(c) == lpc[c] \in {"try", "posting", "sleeping", "done", "raised"}

\* The direct caller's channel is open and its payload can be serialized.
HarnessCanPost == client[Harness] = "open" /\ Serializable(PreparePayload(payload[Harness]))

\* C1: for every max_retries n >= 1 and every sequence of outcomes, a call of
\* the loop issues at most n POSTs, returns true exactly when a response had
\* status 200, and stops at that response: the 200 answers the last POST issued.
C1_AtMostNPostsStopOn200 ==
  \A c \in Callers : InLoop(c) =>
    /\ posts[c] <= max_retries[c]
    /\ (last[c] = Response(200) =>
          lpc[c] = "done" /\ result[c] = "true" /\ posts[c] = attempt[c] + 1)
    /\ (result[c] = "true" => last[c] = Response(200))

\* C1 witness: with max_retries = 7 the loop returned true after its third POST.
C1_Witness ==
  /\ lpc[Harness] = "done" /\ result[Harness] = "true"
  /\ max_retries[Harness] = 7 /\ posts[Harness] = 3

\* C2: against an endpoint that never answers 200, a call with max_retries = n
\* returns false after exactly n POSTs, and a repeated call does the same.
C2_FailingEndpointExactlyN ==
  (endpoint \in {"never200", "always503"} /\ HarnessCanPost) =>
    /\ (lpc[Harness] = "done" =>
          result[Harness] = "false" /\ posts[Harness] = max_retries[Harness])
    /\ (prev # NoCall =>
          prev.result = "false" /\ prev.posts = max_retries[Harness])
    /\ (lpc[Harness] = "done" /\ prev # NoCall =>
          prev.result = result[Harness] /\ prev.posts = posts[Harness])

\* C2 witness: the second call against a failing endpoint has returned.
C2_Witness ==
  /\ endpoint = "never200" /\ HarnessCanPost
  /\ ncalls = 2 /\ prev # NoCall /\ lpc[Harness] = "done"
  /\ max_retries[Harness] = 3 /\ last[Harness] = Raised("network")

\* C3: the wait after failed attempt i is the i-th entry of 1,2,4,8,16 for
\* i <= 4 and 16 for i >= 5, whatever the failure was.
C3_BackoffSchedule ==
  \A c \in Callers :
    /\ \A k \in 1..Len(waits[c]) : waits[c][k] = ScheduledWait(k - 1)
    /\ (lpc[c] = "sleeping" => Len(waits[c]) = attempt[c] + 1)

\* C3 witness: the loop sleeps 16 s after failed attempt 5, a network error.
C3_Witness ==
  /\ lpc[Harness] = "sleeping" /\ attempt[Harness] = 5
  /\ waits[Harness][6] = 16 /\ last[Harness] = Raised("network")

\* C4: the loop waits only between attempts, never after the final attempt and
\* never after a success; with max_retries = 5, answers 500,500,500,200 give
\* true after 4 POSTs and 7 s of waits, answers 503 forever give false after
\* 5 POSTs and 15 s of waits.
C4_WaitsOnlyBetweenAttempts ==
  /\ \A c \in Callers :
       /\ (lpc[c] = "sleeping" => attempt[c] < max_retries[c] - 1)
       /\ (lpc[c] = "done" /\ result[c] = "true" => Len(waits[c]) = posts[c] - 1)
       /\ (lpc[c] = "done" /\ result[c] = "false" => Len(waits[c]) = max_retries[c] - 1)
  /\ (HarnessCanPost /\ max_retries[Harness] = 5 /\ lpc[Harness] = "done") =>
       /\ (endpoint = "500x3_then_200" =>
             result[Harness] = "true" /\ posts[Harness] = 4 /\ SumSeq(waits[Harness]) = 7)
       /\ (endpoint = "always503" =>
             result[Harness] = "false" /\ posts[Harness] = 5 /\ SumSeq(waits[Harness]) = 15)

\* C4 witness: the 500,500,500,200 scenario has returned.
C4_Witness ==
  /\ endpoint = "500x3_then_200" /\ HarnessCanPost /\ max_retries[Harness] = 5
  /\ lpc[Harness] = "done" /\ posts[Harness] = 4 /\ waits[Harness] = <<1, 2, 4>>

\* C5: no exception leaves the loop; a non-200 status, a timeout, a network
\* error, another transport error and an error before the POST each consume one
\* attempt and are followed by the same wait, and the loop returns a boolean.
C5_NoExceptionEscapesLoop ==
  /\ prev.result # "raised"
  /\ \A c \in Callers :
       /\ lpc[c] # "raised"
       /\ (lpc[c] = "done" => result[c] \in {"true", "false"})
       /\ (lpc[c] = "sleeping" =>
             /\ last[c] \in Outcomes \ {Response(200)}
             /\ Len(waits[c]) = attempt[c] + 1
             /\ waits[c][attempt[c] + 1] = ScheduledWait(attempt[c]))
       /\ (lpc[c] = "done" /\ result[c] = "false" => attempt[c] = max_retries[c])

\* C5 witness: a call whose every attempt raised before the POST (the channel
\* was never opened) has returned false after using all its attempts.
C5_Witness ==
  /\ lpc[Harness] = "done" /\ result[Harness] = "false"
  /\ client[Harness] = "none" /\ last[Harness] = Raised("other")
  /\ max_retries[Harness] = 4 /\ attempt[Harness] = 4 /\ posts[Harness] = 0

\* Steps 1-4 of the Runner: generation, hosting, round-2 reads, report.
Steps1to4 == {"generate_app_code", "generate_readme", "create_repository", "add_license",
              "push_files", "enable_github_pages", "get_repo", "read_index_html",
              "read_readme", "update_code_for_revision", "update_readme_for_revision",
              "get_pages_url", "get_repository_url", "build_report"}

\* C6: the Runner never raises to its scheduler; after an exception at any
\* step it is terminated and nothing of that deployment changes any more.
C6_RunnerNeverRaises ==
  [][\A d \in Deps :
       /\ pc'[d] # "crashed"
       /\ (failed'[d] # "none" => pc'[d] = "done" /\ thread' # {d} /\ ~waiting'[d])
       /\ (failed[d] # "none" =>
             UNCHANGED <<pc[d], failed[d], commit_sha[d], opened[d], deliveries[d],
                         client[d], lpc[d], posts[d], result[d]>>)]_vars

\* C6 witness: the channel close raised after a delivery of five POSTs and the
\* Runner is terminated.
C6_Witness ==
  \E d \in Deps : failed[d] = "close_channel" /\ pc[d] = "done" /\ posts[d] = 5

\* C7: when one of steps 1-4 fails, no channel is opened and no POST is issued
\* for that deployment.
C7_FailureBeforeNotifyMeansNoPost ==
  \A d \in Deps : failed[d] \in Steps1to4 =>
    /\ opened[d] = 0 /\ client[d] = "none"
    /\ deliveries[d] = 0 /\ posts[d] = 0 /\ lpc[d] = "idle"
    /\ pc[d] = "done"

\* C7 witness: a round-2 deployment whose read of index.html raised.
C7_Witness ==
  \E d \in Deps : req[d].round = 2 /\ failed[d] = "read_index_html" /\ pc[d] = "done"

\* C8 as stated: every deployment that has ended ran the loop exactly once.
C8_ExactlyOncePerDeployment ==
  \A d \in Deps : pc[d] = "done" => deliveries[d] = 1

\* C8 amended: a Runner starts the loop at most once, with max_retries = 5 and
\* the request's evaluation_url; exactly once when steps 1-4 and the channel
\* open succeeded, and not at all otherwise.
C8_AtMostOnceAndOnceAfterSteps ==
  \A d \in Deps :
    /\ deliveries[d] <= 1
    /\ (deliveries[d] = 1 =>
          /\ max_retries[d] = 5
          /\ target[d] = req[d].url /\ target[d] = "evaluation_url")
    /\ (pc[d] = "done" /\ failed[d] \notin Steps1to4 \cup {"open_channel"} => deliveries[d] = 1)
    /\ (failed[d] \in Steps1to4 \cup {"open_channel"} => deliveries[d] = 0)

\* C8 witness: a deployment ended after a delivery that returned false.
C8_Witness ==
  \E d \in Deps : pc[d] = "done" /\ failed[d] = "none" /\ deliveries[d] = 1
                  /\ result[d] = "false" /\ posts[d] = 5

\* Collaborator calls of a round-2 deployment.
Round2Collaborators == {"generate_app_code", "generate_readme", "get_repo", "read_index_html",
                        "read_readme", "update_code_for_revision",
                        "update_readme_for_revision", "push_files"}

\* C9: a round-2 deployment in which every collaborator call succeeded (and the
\* pushed commit identifier is well formed and the channel opens) has issued at
\* least one POST when its Runner ends.
C9_Round2ReachesDelivery ==
  \A d \in Deps :
    (/\ pc[d] = "done" /\ req[d].round = 2
     /\ failed[d] \notin Round2Collaborators \cup {"open_channel", "close_channel"}
     /\ validate_sha_format(commit_sha[d]))
    => posts[d] >= 1

\* d waits inside a network call or a backoff wait.
InNetworkCallOrWait(d) == waiting[d] \/ lpc[d] \in {"posting", "sleeping"}

\* C10: while a deployment waits inside a network call or a backoff wait, the
\* event loop is free: a new webhook call can be answered and every other
\* Runner that is ready can take its next step.
C10_NetworkCallsAreSuspensionPoints ==
  \A d \in Deps : InNetworkCallOrWait(d) =>
    \A e \in Deps \ {d} :
      /\ (pc[e] = "idle" => ENABLED (\E r \in Requests : deploy_endpoint(e, r)))
      /\ (pc[e] = "scheduled" => ENABLED RunnerStart(e))
      /\ (lpc[e] = "sleeping" => ENABLED Wake(e))

\* Positions of process_deployment: the task has been started.
RunnerPositions == {"generate_app_code", "generate_readme", "create_repository", "add_license",
                    "push_files", "enable_github_pages", "get_repo", "read_index_html",
                    "read_readme", "update_code_for_revision", "update_readme_for_revision",
                    "get_pages_url", "get_repository_url", "build_report", "open_channel",
                    "notify_evaluation", "close_channel", "done", "crashed", "cancelled"}

\* C11: for an accepted webhook call the 200 response exists before the first
\* step of its Runner executes (every step into or inside the Runner finds the
\* response already sent), the handler answers in the step that only schedules
\* the Runner, and no later step, whatever the Runner's outcome, changes a
\* response once it was sent.
C11_ResponseBeforeRunner ==
  [][\A d \in Deps :
       /\ (pc'[d] \in RunnerPositions => resp[d] = 200)
       /\ (pc[d] = "idle" /\ resp'[d] = 200 => pc'[d] = "scheduled" /\ thread' = Free)
       /\ (resp[d] # 0 => resp'[d] = resp[d])]_vars

\* C11 witness: two accepted calls still carry their 200 after one Runner
\* failed in a hosting step and the other one's delivery failed.
C11_Witness ==
  \E d, e \in Deps :
    /\ resp[d] = 200 /\ pc[d] = "done" /\ failed[d] = "push_files"
    /\ resp[e] = 200 /\ pc[e] = "done" /\ failed[e] = "none" /\ result[e] = "false"

\* C12: a Runner is scheduled for a webhook call if and only if the call is
\* answered 200: a call answered 401, 422 or 500 has no background task, stays
\* rejected and leaves no trace of a Runner; a call answered 200 has exactly one
\* background task, and it carries exactly the request of that call.
C12_RunnerIffAccepted ==
  \A d \in Deps :
    /\ (resp[d] = 200 <=> background[d] # <<>>)
    /\ (resp[d] = 200 <=> pc[d] \in RunnerPositions \cup {"scheduled"})
    /\ (resp[d] = 200 => background[d] = <<Deployment(req[d])>>)
    /\ (resp[d] \in {401, 422, 500} =>
          /\ pc[d] = "rejected" /\ background[d] = <<>>
          /\ failed[d] = "none" /\ opened[d] = 0 /\ deliveries[d] = 0 /\ posts[d] = 0)
    /\ (pc[d] = "idle" <=> resp[d] = 0)

\* C12 witness: one call was answered 401 and has no Runner while another was
\* answered 200 and its Runner ran to the end of the delivery.
C12_Witness ==
  \E d, e \in Deps :
    /\ resp[d] = 401 /\ pc[d] = "rejected" /\ background[d] = <<>>
    /\ resp[e] = 200 /\ pc[e] = "done" /\ deliveries[e] = 1 /\ Len(background[e]) = 1

\* C13 as stated: while SHARED_SECRET is absent or empty every webhook call is
\* answered 500, whatever secret and body it carries.
C13_Always500 ==
  shared_secret = "" => \A d \in Deps : resp[d] \in {0, 500}

\* C13 amended: while SHARED_SECRET is absent or empty, every call whose body
\* passes schema validation is answered 500 whatever its secret, a call whose
\* body fails schema validation is answered 422, and no call is answered 200
\* or 401, compared against a secret or given a Runner.
C13_Unconfigured ==
  shared_secret = "" =>
    \A d \in Deps :
      resp[d] # 0 =>
        /\ resp[d] = (IF req[d].valid THEN 500 ELSE 422)
        /\ resp[d] \notin {200, 401}
        /\ ~compared[d]
        /\ background[d] = <<>>

\* C13 witness: with no server secret, a schema-valid call got 500 and a call
\* with a malformed body got 422.
C13_Witness ==
  /\ shared_secret = ""
  /\ \E d, e \in Deps :
       /\ req[d].valid /\ req[d].secret = "abc" /\ resp[d] = 500
       /\ ~req[e].valid /\ resp[e] = 422

\* C14: schema validation is decided before authentication: a call whose body
\* fails schema validation is answered 422, never 401, also when its secret is
\* wrong, and validate_secret is not executed for it; a schema-valid call is
\* never answered 422, and with a secret that differs from the configured one
\* it is answered 401 after the comparison.
C14_SchemaBeforeAuth ==
  \A d \in Deps :
    resp[d] # 0 =>
      /\ (~req[d].valid => resp[d] = 422 /\ ~compared[d])
      /\ (req[d].valid => resp[d] # 422)
      /\ (req[d].valid /\ shared_secret # "" /\ req[d].secret # shared_secret =>
            resp[d] = 401 /\ compared[d])

\* C14 witness: two calls with the same wrong secret, one with a malformed
\* body answered 422 without comparison, one well-formed answered 401.
C14_Witness ==
  /\ shared_secret = "abc"
  /\ \E d, e \in Deps :
       /\ ~req[d].valid /\ req[d].secret = "abd" /\ resp[d] = 422 /\ ~compared[d]
       /\ req[e].valid /\ req[e].secret = "abd" /\ resp[e] = 401 /\ compared[e]

\* C15: a channel opened for a delivery sequence is open only inside the scoped
\* block and is closed on every way out of it (the loop returned true, returned
\* false, an exception or a cancellation left the block): once the Runner or
\* the sync wrapper has terminated, no channel it opened is still open.
C15_ChannelClosedOnExit ==
  /\ \A d \in Deps :
       /\ (client[d] = "open" => pc[d] \in {"notify_evaluation", "close_channel"})
       /\ (pc[d] \in {"done", "crashed", "cancelled"} /\ opened[d] > 0 => client[d] = "closed")
  /\ (lpc[Harness] = "idle" /\ ncalls > 0 => client[Harness] = "closed")

\* C15 witness: a Runner cancelled during its second POST has terminated and the
\* channel it opened is closed.
C15_Witness ==
  \E d \in Deps :
    /\ pc[d] = "cancelled" /\ opened[d] = 1 /\ posts[d] = 2 /\ client[d] = "closed"

\* The order of the steps of one deployment, per round; the notification is the
\* channel open, the call of the loop and the scope exit.
Round1Order == <<"generate_app_code", "generate_readme", "create_repository", "add_license",
                 "push_files", "enable_github_pages", "get_repository_url", "build_report",
                 "open_channel", "notify_evaluation", "close_channel", "done">>
Round2Order == <<"generate_app_code", "generate_readme", "get_repo", "read_index_html",
                 "read_readme", "update_code_for_revision", "update_readme_for_revision",
                 "push_files", "get_pages_url", "get_repository_url", "build_report",
                 "open_channel", "notify_evaluation", "close_channel", "done">>
StepOrder(d) == IF req[d].round = 1 THEN Round1Order ELSE Round2Order
Position(order, step) == CHOOSE i \in 1..Len(order) : order[i] = step

\* C16: within one deployment the steps run strictly in the order generate
\* code, generate README, hosting steps of the round, get_repo_url, build
\* report, notify: the Runner moves only from a step to the next one of its
\* round (or to its end when the step failed), only after the step's call was
\* made and has returned, and only as the one coroutine that holds the thread,
\* so no step runs twice or in parallel with another step of the deployment.
C16_StepsInOrder ==
  [][\A d \in Deps :
       pc[d] \in RunnerPositions \cup {"scheduled"} /\ pc'[d] # pc[d] =>
         /\ IF pc[d] = "scheduled" THEN pc'[d] = "generate_app_code" /\ thread' = {d}
            ELSE /\ thread = {d}
                 /\ \/ pc'[d] = StepOrder(d)[Position(StepOrder(d), pc[d]) + 1]
                    \/ pc'[d] = "done" /\ failed'[d] # "none"
         /\ (pc[d] \in NetworkSteps => waiting[d])
         /\ (pc[d] = "close_channel" => lpc[d] \in {"done", "raised"})
         /\ ~waiting'[d]
         /\ lpc'[d] = "idle" \/ pc'[d] = "close_channel"]_vars

\* C16 witness: a round-1 deployment went through every step and its delivery
\* succeeded.
C16_Witness ==
  \E d \in Deps :
    /\ req[d].round = 1 /\ pc[d] = "done" /\ failed[d] = "none"
    /\ deliveries[d] = 1 /\ result[d] = "true"

\* Round-1 hosting calls (main.py:116-134), and the positions of a Runner that
\* has returned from one hosting call and has another one ahead.
Round1Hosting == {"create_repository", "add_license", "push_files", "enable_github_pages"}
BetweenHostingCalls == {"add_license", "push_files", "enable_github_pages"}

\* The hosting segments of two round-1 deployments never overlap: while one
\* Runner is between its hosting calls no other Runner is at a hosting call.
HostingCallsSerialized ==
  \A d, e \in Deps :
    d # e /\ pc[d] \in BetweenHostingCalls => pc[e] \notin Round1Hosting

HostingOps == {"create_repository", "add_license", "push_files", "enable_github_pages",
               "get_repo", "read_index_html", "read_readme", "get_pages_url"}
RaisingHostingOps == HostingOps \ {"enable_github_pages"}

\* The Runner of d has gone past `step`.
Past(d, step) ==
  \/ pc[d] = "cancelled"
  \/ Position(StepOrder(d), pc[d]) > Position(StepOrder(d), step)

\* C18 as stated: whenever a hosting operation of a deployment has failed, the
\* remaining pipeline is aborted and the evaluator is not notified.
C18_HostingFailureAborts ==
  \A d \in Deps :
    failed[d] \in HostingOps \/ errlog[d] \cap HostingOps # {} =>
      pc[d] = "done" /\ deliveries[d] = 0

\* C18 amended: a hosting failure that is raised to the Runner (create_repo,
\* push_files, a round-2 file read, get_pages_url, or an error of add_license
\* that is no GitHub API error) aborts the remaining pipeline and the evaluator
\* is not notified; a GitHub API error inside add_license and a failure inside
\* enable_pages are logged and absorbed, they do not end the Runner, which goes
\* on to the next step.
C18_RaisedHostingFailureAborts ==
  \A d \in Deps :
    /\ (failed[d] \in RaisingHostingOps =>
          /\ pc[d] = "done"
          /\ opened[d] = 0 /\ deliveries[d] = 0 /\ posts[d] = 0 /\ client[d] = "none")
    /\ failed[d] # "enable_github_pages"
    /\ \A step \in errlog[d] \cap HostingOps :
         /\ step \in {"add_license", "enable_github_pages"}
         /\ failed[d] # step
         /\ Past(d, step)

\* C18 witness: add_license absorbed a GitHub error, the Runner went on, and
\* the failure of push_files then ended it without a notification.
C18_Witness ==
  \E d \in Deps :
    /\ "add_license" \in errlog[d]
    /\ failed[d] = "push_files" /\ pc[d] = "done" /\ deliveries[d] = 0

\* C19: a failure of the code-generation API call in step 1 or step 2 does not
\* abort the deployment: the step returns the static fallback instead of
\* raising, is never the step that ended the Runner, and the Runner goes on to
\* the hosting steps and the notification.
C19_GenerationFailureFallsBack ==
  \A d \in Deps :
    \A step \in errlog[d] \cap {"generate_app_code", "generate_readme"} :
      /\ failed[d] # step
      /\ Past(d, step)
      /\ (failed[d] = "none" /\ pc[d] = "done" => deliveries[d] = 1)

\* C19 witness: both generation calls failed and fell back, the hosting steps
\* ran and the evaluator got its notification.
C19_Witness ==
  \E d \in Deps :
    /\ {"generate_app_code", "generate_readme"} \subseteq errlog[d]
    /\ pc[d] = "done" /\ failed[d] = "none"
    /\ deliveries[d] = 1 /\ posts[d] = 1 /\ result[d] = "true"

\* A setup step of SpecHosting was taken on repository n without a failing call.
CleanStep(n, step) == setup.name = n /\ setup.step = step /\ setup'.clean

\* C20: round-1 repository setup is idempotent: create_repository on a name
\* that exists creates nothing, returns the existing repository and goes on to
\* add_license; add_license on a repository that has a LICENSE writes nothing
\* and, its lookups answered, returns without raising; a further fault-free setup of a name that was set up
\* before leaves the store as it is, so the name has one repository and one
\* LICENSE, each created at most once.
C20_SetupIdempotent ==
  [][\A n \in RepoNames :
       /\ (CleanStep(n, "create_repository") /\ repos[n] # "absent" =>
             /\ setup'.ret = "existing" /\ setup'.step = "add_license"
             /\ repos' = repos /\ created' = created)
       /\ (setup.name = n /\ setup.step = "add_license" /\ repos[n] = "licensed" =>
             /\ repos' = repos /\ licensed' = licensed
             /\ (setup'.clean => setup'.ret = "returned" /\ clean_runs'[n] = clean_runs[n] + 1))
       /\ (clean_runs[n] >= 1 =>
             repos'[n] = "licensed" /\ created'[n] = created[n] /\ licensed'[n] = licensed[n])
       /\ created'[n] <= 1 /\ licensed'[n] <= 1]_vars

\* C20 witness: the setup ran twice without a fault for a name that did not
\* exist: one repository and one LICENSE were created, the second run returned
\* the existing repository and skipped the LICENSE.
C20_Witness ==
  /\ clean_runs["demo-app"] = 2 /\ nruns = 2
  /\ created["demo-app"] = 1 /\ licensed["demo-app"] = 1
  /\ repos["demo-app"] = "licensed" /\ setup.ret = "returned"

\* C21 as stated: one call of push_files adds exactly one commit to the
\* repository, however many files it is given, and the commit identifier it
\* returns is that commit.
C21_OneCommitPerPush ==
  [][push.step = "get_commits" /\ push'.step = "idle" /\ ~push'.raised =>
       /\ commits'[push.name] = push.base + 1
       /\ push'.ret = push.base + 1]_vars

\* A push of two files has returned: what it found and what it left.
C21_TwoFilePush ==
  /\ push.step = "idle" /\ ~push.raised /\ push.name = "demo-app"
  /\ files["demo-app"] = {"index.html", "README.md"}
  /\ commits["demo-app"] = push.base + 2 /\ push.ret = commits["demo-app"]

\* C22: a delivery failure is terminal and local: when the loop has returned
\* false the Runner only leaves the scoped block and ends (no step of the
\* pipeline is entered again, no further channel or delivery is started, the
\* loop's exception path is not taken), a Runner that has ended never moves
\* again, and a Runner only moves forward in the order of its round, so each
\* of steps 1-4 is executed at most once whatever the delivery outcome.
C22_DeliveryFailureIsTerminal ==
  [][\A d \in Deps :
       /\ (pc[d] = "close_channel" /\ lpc[d] = "done" /\ result[d] = "false" /\ pc'[d] # pc[d] =>
             /\ pc'[d] = "done" /\ thread' = Free
             /\ failed'[d] \in {"none", "close_channel"}
             /\ deliveries'[d] = deliveries[d] /\ opened'[d] = opened[d]
             /\ posts'[d] = posts[d] /\ lpc'[d] = "idle")
       /\ (pc[d] = "done" =>
             UNCHANGED <<pc[d], deliveries[d], opened[d], posts[d], lpc[d], commit_sha[d]>>)
       /\ (pc[d] \in RunnerPositions \ {"done", "crashed", "cancelled"} /\ pc'[d] # pc[d]
             /\ pc'[d] # "cancelled" =>
             Position(StepOrder(d), pc'[d]) > Position(StepOrder(d), pc[d]))]_vars

\* C22 witness: a Runner has ended normally after a delivery of five POSTs that
\* returned false; it opened one channel and closed it.
C22_Witness ==
  \E d \in Deps :
    /\ pc[d] = "done" /\ failed[d] = "none" /\ result[d] = "false"
    /\ posts[d] = 5 /\ deliveries[d] = 1 /\ opened[d] = 1 /\ client[d] = "closed"

\* Positions of a Runner whose report has been constructed.
AfterReport == {"open_channel", "notify_evaluation", "close_channel"}

\* A commit identifier of exactly 40 lowercase hexadecimal characters.
LowercaseHex40(sha) == sha.len = 40 /\ sha.hex /\ ~sha.upper

\* The host of an https URL, and whether it lies in the hosting provider's
\* domain (github.com, or a name under github.io).
HostOf(u) ==
  LET rest == SubSeq(u, 9, Len(u))
      slash == CHOOSE i \in 1..Len(rest) : rest[i] = "/" /\ \A j \in 1..(i - 1) : rest[j] # "/"
  IN  SubSeq(rest, 1, slash - 1)
EndsWith(s, t) == Len(s) >= Len(t) /\ SubSeq(s, Len(s) - Len(t) + 1, Len(s)) = t
OnGitHub(u) ==
  /\ SubSeq(u, 1, 8) = <<"h", "t", "t", "p", "s", ":", "/", "/">>
  /\ \/ HostOf(u) = <<"g", "i", "t", "h", "u", "b", ".", "c", "o", "m">>
     \/ EndsWith(HostOf(u), <<".", "g", "i", "t", "h", "u", "b", ".", "i", "o">>)

\* C23 as stated: a report is constructed only from a pipeline result whose
\* commit identifier is exactly 40 lowercase hexadecimal characters; any other
\* result makes the construction fail.
C23_OnlyLowercaseResultsReported ==
  \A d \in Deps : pc[d] \in AfterReport => LowercaseHex40(commit_sha[d])

\* C23 amended: the report handed to the loop has a commit identifier of
\* exactly 40 lowercase hexadecimal characters and repository and pages URLs on
\* the hosting provider's domain; a pipeline result whose commit identifier is
\* not 40 hexadecimal digits makes the construction fail and nothing is opened
\* or posted, while uppercase digits are accepted and reported in lowercase.
C23_ReportWellFormed ==
  \A d \in Deps :
    /\ (pc[d] = "close_channel" =>
          /\ payload[d].commit_sha.type = "str"
          /\ LowercaseHex40(payload[d].commit_sha.value)
          /\ payload[d].commit_sha.value = lower_sha(commit_sha[d])
          /\ payload[d].repo_url.type = "str" /\ OnGitHub(payload[d].repo_url.value)
          /\ payload[d].pages_url.type = "str" /\ OnGitHub(payload[d].pages_url.value))
    /\ (pc[d] \in AfterReport => commit_sha[d].len = 40 /\ commit_sha[d].hex)
    /\ (failed[d] = "build_report" =>
          /\ ~(commit_sha[d].len = 40 /\ commit_sha[d].hex)
          /\ pc[d] = "done" /\ opened[d] = 0 /\ deliveries[d] = 0 /\ posts[d] = 0)
    /\ (pc[d] = "done" /\ failed[d] \in {"none", "open_channel", "notify_evaluation",
                                           "close_channel"} =>
          commit_sha[d].len = 40 /\ commit_sha[d].hex)

\* C23 witness: push_files returned 40 hexadecimal digits with uppercase
\* letters, the report was built and its POST carries the lowercased value.
C23_Witness ==
  \E d \in Deps :
    /\ commit_sha[d].upper /\ commit_sha[d].len = 40
    /\ pc[d] = "close_channel" /\ lpc[d] = "posting"
    /\ ~payload[d].commit_sha.value.upper

\* C24: the body of every POST of a deployment carries the task, round, nonce
\* and email of the validated request that started that deployment, unchanged,
\* together with the repo_url, commit_sha and pages_url of that deployment's own
\* hosting steps; it stays the same as long as the delivery runs, whatever
\* other deployments do, and never carries the nonce of another call.
C24_BodyEchoesOwnDeployment ==
  [][\A d \in Deps :
       pc'[d] = "close_channel" =>
         /\ background'[d] = <<Deployment(req'[d])>>
         /\ payload'[d].task = Str(req'[d].task)
         /\ payload'[d].round = Num(req'[d].round)
         /\ payload'[d].nonce = Str(d)
         /\ payload'[d].email = Str(background'[d][1].email)
         /\ payload'[d].repo_url = Str(RepositoryUrl(repo_name'[d]))
         /\ payload'[d].commit_sha = Str(lower_sha(commit_sha'[d]))
         /\ payload'[d].pages_url = Str(PagesUrl(repo_name'[d]))
         /\ \A e \in Deps \ {d} : payload'[d].nonce.value # req'[e].nonce
         /\ (pc[d] = "close_channel" => payload'[d] = payload[d])]_vars

\* C24 witness: two deployments are delivering at the same time, one waits for
\* the answer to its POST and the other one sleeps between attempts; each body
\* carries its own nonce and task.
C24_Witness ==
  \E d, e \in Deps :
    /\ d # e /\ lpc[d] = "posting" /\ lpc[e] = "sleeping"
    /\ payload[d].nonce = Str(d) /\ payload[e].nonce = Str(e)
    /\ payload[d].task # payload[e].task

\* C25: delivery is at-least-once without deduplication: after its first POST
\* a call of the loop keeps its URL and its body, so every POST of the call is
\* the same; when the receiver processed a POST but the sender saw a timeout
\* or a connection error and has attempts left, the loop waits and tries again
\* instead of stopping; a POST is issued whatever the receiver has processed
\* before, so the receiver may process the same report more than once.
C25_AtLeastOnceNoDedup ==
  [][\A c \in Callers :
       /\ (posts[c] >= 1 /\ lpc[c] \in {"try", "posting", "sleeping"} =>
             target'[c] = target[c] /\ payload'[c] = payload[c])
       /\ (/\ lpc[c] = "posting" /\ arrived[c] /\ lpc'[c] # "posting"
           /\ last'[c] \in {Raised("timeout"), Raised("network")}
           /\ attempt[c] < max_retries[c] - 1
           => lpc'[c] = "sleeping" /\ result'[c] = "none" /\ attempt'[c] = attempt[c])
       /\ (lpc[c] = "sleeping" => lpc'[c] \in {"sleeping", "try", "cancelled"})
       /\ (lpc[c] = "try" /\ attempt[c] < max_retries[c] /\ ~PostRaisesEarly(c) /\ lpc'[c] # "try" =>
             lpc'[c] = "posting" /\ posts'[c] = posts[c] + 1 /\ received'[c] = received[c])
       /\ received'[c] <= posts'[c]]_vars

\* C25 witness: the receiver processed the first POST, the sender saw a
\* timeout, slept and posted the same body again, and the receiver has
\* processed that second POST too.
C25_Witness ==
  /\ lpc[Harness] = "posting" /\ arrived[Harness] /\ last[Harness] = Raised("timeout")
  /\ posts[Harness] = 2 /\ received[Harness] = 2 /\ waits[Harness] = <<1>>
  /\ payload[Harness] = TestData(Str(TestUrl))

\* The fields of payload p are plain values or typed URLs.
PlainOrTypedUrl(p) == \A k \in DOMAIN p : p[k].type \in {"str", "int", "HttpUrl"}

\* C26: a payload whose top-level fields are plain values or typed URLs is
\* posted (given an open channel), and the body of every POST, the first one
\* included, has each typed URL as the plain string of that URL and every
\* other field as it was given; no body contains a typed URL.
C26_TypedUrlSentAsString ==
  [][\A c \in Callers :
       /\ (lpc'[c] = "posting" => \A k \in DOMAIN payload'[c] : payload'[c][k].type # "HttpUrl")
       /\ (lpc[c] = "try" /\ lpc'[c] # "try" /\ attempt[c] < max_retries[c]
             /\ client[c] = "open" /\ PlainOrTypedUrl(payload[c]) =>
             /\ lpc'[c] = "posting"
             /\ DOMAIN payload'[c] = DOMAIN payload[c]
             /\ \A k \in DOMAIN payload[c] :
                  payload'[c][k] = IF payload[c][k].type = "HttpUrl"
                                     THEN [type |-> "str", value |-> payload[c][k].value]
                                     ELSE payload[c][k])]_vars

\* C26 witness: the caller's dict had a typed URL; the first POST is in flight
\* and its body has the URL as a string next to the untouched string field.
C26_Witness ==
  /\ lpc[Harness] = "posting" /\ posts[Harness] = 1 /\ attempt[Harness] = 0
  /\ payload[Harness].link = [type |-> "str", value |-> TypedUrl]
  /\ payload[Harness].test = [type |-> "str", value |-> "data"]

\* Endpoints whose answer to each attempt is fixed.
ScriptedEndpoints == {"500x3_then_200", "always503"}

\* The finished wrapper call did what the previous call, which had an open
\* channel and the same arguments, did.
SameAsPreviousCall ==
  (wrapper /\ lpc[Harness] = "done" /\ prev # NoCall /\ prev.open
     /\ endpoint \in ScriptedEndpoints) =>
    /\ result[Harness] = prev.result
    /\ posts[Harness] = prev.posts
    /\ waits[Harness] = prev.waits

\* The wrapper's loop runs on a channel the call opened; the return closed it.
OwnChannelPerCall ==
  /\ (wrapper /\ lpc[Harness] # "idle" => client[Harness] = "open")
  /\ (prev # NoCall /\ prev.sync => prev.open)
  /\ (wrapper /\ lpc[Harness] = "idle" => client[Harness] = "closed")

\* C27: SyncNotificationService.notify_evaluation drives the same loop as the
\* direct call: for the same arguments and a scripted endpoint it makes the same
\* POSTs and waits and returns the same value, it returns only when the loop
\* has finished, every wait included, and each call opens a channel and closes
\* it, so that a second call on the same instance does the same again.
C27_WrapperDrivesSameLoop ==
  [][ /\ SameAsPreviousCall'
      /\ OwnChannelPerCall'
      /\ (wrapper /\ lpc[Harness] # "idle" /\ lpc'[Harness] = "idle" =>
            /\ lpc[Harness] \in {"done", "raised"}
            /\ prev'.result = result[Harness]
            /\ prev'.posts = posts[Harness]
            /\ prev'.waits = waits[Harness]
            /\ client'[Harness] = "closed")
    ]_vars

\* C27 witness: after a direct call on an open channel, the wrapper called with
\* the same arguments has made the same four POSTs and three waits.
C27_Witness ==
  /\ wrapper /\ ncalls = 2 /\ prev # NoCall /\ ~prev.sync /\ prev.open
  /\ endpoint = "500x3_then_200" /\ max_retries[Harness] = 5
  /\ lpc[Harness] = "done" /\ result[Harness] = "true"
  /\ posts[Harness] = 4 /\ waits[Harness] = <<1, 2, 4>>
  /\ prev.result = "true" /\ prev.posts = 4

\* helpers.py:93 and 269: the example task name of sanitize_repo_name.
CaptchaTask == <<"C", "a", "p", "t", "c", "h", "a", " ", "S", "o", "l", "v", "e", "r", " ", "2", "0", "2", "5", "!">>
CaptchaName == <<"c", "a", "p", "t", "c", "h", "a", "-", "s", "o", "l", "v", "e", "r", "-", "2", "0", "2", "5">>
CaptchaSanitized == \A now \in Timestamps : sanitize_repo_name(CaptchaTask, now) = CaptchaName

\* C28: the repository name is computed from the task name by sanitize_repo_name
\* before the first hosting call of a deployment; every hosting call of the
\* deployment is given that one name, and not the task name as the request
\* gives it; the name of task "Captcha Solver 2025!" is "captcha-solver-2025".
C28_HostingCallsGetSanitizedName ==
  [][ /\ CaptchaSanitized
      /\ \A d \in Deps :
            hosted'[d] # hosted[d] =>
              /\ repo_name[d] # NoName
              /\ repo_name'[d] = repo_name[d]
              /\ \E now \in Timestamps :
                    repo_name[d] = sanitize_repo_name(RunnerRequest(d).task, now)
              /\ hosted'[d] = {repo_name[d]}
              /\ (RunnerRequest(d).task # repo_name[d] =>
                    RunnerRequest(d).task \notin hosted'[d])
    ]_vars

\* C28 witness: a round-1 deployment whose task name is not a repository name
\* has made its hosting calls up to get_repository_url, all with the same name.
C28_Witness ==
  \E d \in Deps :
    /\ pc[d] = "build_report" /\ req[d].round = 1
    /\ req[d].task # repo_name[d]
    /\ hosted[d] = {repo_name[d]}
    /\ \E now \in Timestamps : repo_name[d] = sanitize_repo_name(req[d].task, now)

\* C29: for every task name the result of sanitize_repo_name is non-empty, at
\* most 100 characters long, made of lowercase letters, digits and hyphens only,
\* has no two hyphens in a row and neither starts nor ends with a hyphen, also
\* when the sanitized form is longer than 100 characters and is cut.
C29_NameWellFormed ==
  (helper.fn = "sanitize_repo_name" /\ helper.ret # <<>>) =>
    LET name == helper.ret[1]
    IN  /\ name # <<>>
        /\ Len(name) <= MaxNameLength
        /\ \A i \in 1..Len(name) : name[i] \in NameChars
        /\ \A i \in 1..(Len(name) - 1) : ~(name[i] = "-" /\ name[i + 1] = "-")
        /\ name[1] # "-"
        /\ name[Len(name)] # "-"

\* A task name of 99 letters, a space and a letter was cut after its hyphen.
C29_CutAfterHyphen ==
  /\ helper.fn = "sanitize_repo_name" /\ helper.ret # <<>>
  /\ helper.args[1] = Pad(MaxNameLength - 1) \o <<" ", "a">>
  /\ helper.ret[1] = Pad(MaxNameLength - 1) \o <<"-">>

\* C30: the authentication accepts a decoded webhook call if and only if the
\* provided secret equals, byte for byte, the configured non-empty server
\* secret; any other secret is answered 401, wherever its first differing byte
\* is; and the comparison examines the same byte positions for every provided
\* secret of the same length: it does not stop at the first mismatch.
C30_ExactConstantTimeAuth ==
  (helper.fn = "validate_secret" /\ helper.ret # <<>> /\ helper.args[2] # <<>>) =>
    LET provided == helper.args[1]
        expected == helper.args[2]
        r == helper.ret[1]
    IN  /\ (r.status = 200 <=> provided = expected)
        /\ (r.status # 200 => r.status = 401)
        /\ \A q \in ProvidedSecrets :
              Len(q) = Len(provided) => Authenticate(q, expected).examined = r.examined

\* C30 witness: with "abc" configured, "abd" was answered 401 after all three
\* bytes had been examined.
C30_Witness ==
  /\ helper.fn = "validate_secret" /\ helper.ret # <<>>
  /\ helper.args = <<<<"a", "b", "d">>, <<"a", "b", "c">>>>
  /\ helper.ret[1] = [status |-> 401, examined |-> 3]

\* C31 as stated: the generation client and the hosting client are made once at
\* process start, and no step changes any field of either object.
C31_ClientsReadOnly ==
  [][llm_service' = llm_service /\ github_service' = github_service]_vars

\* C31 amended: no step changes a field of the hosting client; of the generation
\* client only _last_request_time is ever written, by the generation call of the
\* Runner that holds the thread, with a reading of the clock; the Runners
\* share that field.
C31_OnlyRequestTimeWritten ==
  [][ /\ github_service' = github_service
      /\ llm_service' = [llm_service EXCEPT !.last_request_time = llm_service'.last_request_time]
      /\ (llm_service' # llm_service =>
            /\ llm_service'.last_request_time = ClockReading
            /\ \E d \in Deps : thread = {d} /\ pc[d] \in GenerationSteps /\ pc'[d] # pc[d])
    ]_vars

\* C31 witness: one Runner starts its generation call and finds the time that
\* the call of another Runner, now past its generation steps, has written.
C31_Witness ==
  \E d, e \in Deps :
    /\ d # e
    /\ pc[d] = "generate_app_code" /\ thread = {d}
    /\ pc[e] \notin GenerationSteps \cup {"idle", "scheduled", "rejected"}
    /\ llm_service.last_request_time = ClockReading
    /\ llm_service # LLMServiceAIPipe

\* C32: send_with_retry returns (true, no message) exactly when the loop it
\* awaited returned true, and (false, a message naming the number of attempts)
\* exactly when the loop returned false; it makes no POST besides those of that
\* one loop, and it does not raise, whatever the endpoint answers.
C32_SendReportsLoopResult ==
  [][send.active /\ ~send'.active =>
       LET r == send'.ret[1]
       IN  /\ r.exc = "none"
           /\ lpc[Harness] = "done"
           /\ (r.success <=> result[Harness] = "true")
           /\ (r.success => r.message = NoMessage)
           /\ (~r.success => result[Harness] = "false"
                              /\ r.message = FailedAfter(max_retries[Harness]))
           /\ posts' = posts /\ received' = received
           /\ posts[Harness] <= (IF max_retries[Harness] > 0 THEN max_retries[Harness] ELSE 0)
           /\ prev'.posts = posts[Harness]
    ]_vars

\* C32 witness: against an endpoint that answers 500 the call with retries = 2
\* has made two POSTs and returned (false, "Failed after 2 attempts").
C32_Witness ==
  /\ send = [active |-> FALSE, ret |-> <<DeliveryOutcome(FALSE, 2)>>]
  /\ max_retries[Harness] = 2 /\ endpoint = "never200" /\ last[Harness] = NoOutcome
  /\ prev.posts = 2 /\ prev.result = "false"

\* C38: a call of the loop with max_retries <= 0 makes no POST and no backoff
\* wait and returns false; send_with_retry then reports a failure although
\* nothing was attempted.
C38_NoAttemptStillFailure ==
  max_retries[Harness] <= 0 =>
    /\ posts[Harness] = 0 /\ received[Harness] = 0
    /\ waits[Harness] = <<>> /\ attempt[Harness] = 0
    /\ lpc[Harness] \in {"idle", "try", "done"}
    /\ (lpc[Harness] = "done" => result[Harness] = "false")
    /\ (send.ret # <<>> =>
          /\ send.ret[1] = DeliveryOutcome(FALSE, max_retries[Harness])
          /\ prev.posts = 0 /\ prev.waits = <<>> /\ prev.result = "false")

\* C38 witness: on an open channel send_with_retry with retries = 0 has returned
\* (false, "Failed after 0 attempts") without a POST.
C38_Witness ==
  /\ max_retries[Harness] = 0 /\ client[Harness] = "open"
  /\ send = [active |-> FALSE, ret |-> <<DeliveryOutcome(FALSE, 0)>>]
  /\ posts[Harness] = 0 /\ prev.result = "false"

\* C39: a call of the loop on a service whose channel was never opened, or was
\* closed, makes no POST and does not raise; it returns false, and only after
\* all max_retries attempts were used up, with every backoff wait between them.
C39_NoChannelAllAttemptsNoPost ==
  (client[Harness] # "open" /\ max_retries[Harness] >= 1) =>
    /\ posts[Harness] = 0 /\ received[Harness] = 0
    /\ lpc[Harness] \notin {"posting", "raised"}
    /\ (lpc[Harness] = "done" =>
          /\ result[Harness] = "false"
          /\ attempt[Harness] = max_retries[Harness]
          /\ Len(waits[Harness]) = max_retries[Harness] - 1
          /\ \A k \in 1..Len(waits[Harness]) : waits[Harness][k] = BackoffDelay(k - 1))
    /\ (lpc[Harness] # "idle" /\ result[Harness] # "none" => lpc[Harness] = "done")

\* C39 witness: on a closed channel the call with max_retries = 5 has returned
\* false after the waits 1, 2, 4, 8 and no POST.
C39_Witness ==
  /\ client[Harness] = "closed" /\ max_retries[Harness] = 5
  /\ lpc[Harness] = "done" /\ result[Harness] = "false"
  /\ posts[Harness] = 0 /\ waits[Harness] = <<1, 2, 4, 8>>

\* C33: enable_github_pages never raises: also when the repository lookup or
\* the pages API fails it returns https://<username>.github.io/<repo_name>/, so
\* a round-1 Runner always goes from the enable-pages step on to
\* get_repository_url and the construction of the report, and from a report
\* that was built to the notification, which carries that URL.
C33_EnablePagesNeverRaises ==
  [][\A d \in Deps :
       /\ failed'[d] # "enable_github_pages"
       /\ (pc[d] = "enable_github_pages" /\ pc'[d] # pc[d] =>
             pc'[d] = "get_repository_url" /\ failed'[d] = failed[d] /\ thread' = {d})
       /\ (pc[d] = "get_repository_url" /\ pc'[d] # pc[d] => pc'[d] = "build_report")
       /\ (pc[d] = "build_report" /\ pc'[d] # pc[d] =>
             pc'[d] = "open_channel" \/ failed'[d] = "build_report")
       /\ (pc[d] = "notify_evaluation" /\ pc'[d] # pc[d] /\ RunnerRequest(d).round = 1 =>
             payload'[d].pages_url = Str(PagesUrl(repo_name[d])))
    ]_vars

\* C33 witness: the pages API call of a round-1 deployment failed and was
\* logged, and the Runner is in the loop with the pages URL in the report.
C33_Witness ==
  \E d \in Deps :
    /\ req[d].round = 1 /\ "enable_github_pages" \in errlog[d]
    /\ lpc[d] = "posting" /\ posts[d] = 1
    /\ payload[d].pages_url = Str(PagesUrl(repo_name[d]))

\* C34: for each file handed to push_files, the file is updated when the lookup
\* found it in the repository and is created only when the lookup reported
\* that it does not exist (404); after any other hosting error of the lookup or
\* of the update the push fails without a create being attempted.
C34_CreateOnlyAfter404 ==
  \A c \in push.calls :
    /\ (c.call = "update_file" => c.lookup = "found")
    /\ (c.call = "create_file" => c.lookup = "404")

\* The lookup of README.md failed with a GitHub error that is no 404, and
\* create_file was called and committed the file.
C34_CreateAfterOtherError ==
  /\ push.step = "idle" /\ ~push.raised
  /\ WriteCall("README.md", "create_file", "github_error") \in push.calls
  /\ commits[push.name] = push.base + 1

\* C35: if push_files fails while it handles the k-th of its files, none of the
\* files of that call is left committed: the repository is as it was before
\* the push.
C35_FailedPushLeavesNothing ==
  [][~push.raised /\ push'.raised => commits'[push.name] = push.base]_vars

\* A push of index.html and README.md raised at README.md: index.html stays
\* committed, one commit above the state before the push.
C35_PartialPush ==
  /\ push.step = "idle" /\ push.raised /\ push.name = "demo-app"
  /\ files["demo-app"] = {"index.html"}
  /\ commits["demo-app"] = push.base + 1
  /\ WriteCall("index.html", "create_file", "404") \in push.calls

\* C36: for one task name the round-2 deployment addresses the repository name
\* the round-1 deployment created: sanitize_repo_name returns the same result
\* on every call with the same task name, also for a task name made only of
\* characters that are replaced, such as "!!!".
C36_SameNameInBothRounds ==
  (helper.fn = "sanitize_repo_name" /\ Len(helper.ret) = Cardinality(Rounds)) =>
    helper.ret[1] = helper.ret[2]

\* For task "!!!" round 1 made repo-20261101-074800 and round 2 addresses
\* repo-20270228-235959.
C36_OtherNameInRound2 ==
  /\ helper.fn = "sanitize_repo_name" /\ helper.args = <<<<"!", "!", "!">>>>
  /\ Len(helper.ret) = 2
  /\ helper.ret[1] # helper.ret[2]
  /\ \A k \in 1..2 : SubSeq(helper.ret[k], 1, 5) = <<"r", "e", "p", "o", "-">>

\* process_deployment has come to its end: it returned, also through its
\* except clause, or an error that is no Exception left it.
Ended(d) == pc[d] \in {"done", "crashed", "cancelled"}

\* C37: every Runner invocation terminates: when each collaborator call and
\* each POST returns or raises, a scheduled process_deployment reaches its end,
\* and its Delivery Loop makes at most 5 attempts and at most 4 backoff waits.
C37_RunnerTerminates ==
  /\ \A d \in Deps : (pc[d] = "scheduled") ~> Ended(d)
  /\ [](\A d \in Deps : /\ posts[d] <= RunnerMaxRetries
                         /\ attempt[d] <= RunnerMaxRetries
                         /\ Len(waits[d]) <= RunnerMaxRetries - 1)

\* A Runner has ended after its loop issued 5 POSTs, none of them accepted.
C37_Witness ==
  \E d \in Deps : Ended(d) /\ posts[d] = RunnerMaxRetries /\ result[d] = "false"

\* main.py:53-54 and the constructors: every attribute __init__ assigns is there.
Initialized(obj, fields) == DOMAIN obj = fields

\* C40: in every state in which the application serves requests both client
\* singletons are initialized (a failed initialization keeps the application
\* from serving), so no Runner works with an uninitialized client and GET /health
\* never reports a service as false.
C40_ServingMeansInitialized ==
  app = "serving" =>
    /\ Initialized(llm_service, DOMAIN LLMServiceAIPipe)
    /\ Initialized(github_service, GitHubFields)
    /\ (helper.fn = "health_check" => helper.ret[1] = [llm |-> TRUE, github |-> TRUE])

\* The application serves with a hosting client whose initialization failed:
\* /health reports it as true and the Runner of a round-1 request fails in
\* add_license on the missing templates.
C40_ServingHalfInitialized ==
  /\ app = "serving" /\ ~HasTemplates(github_service)
  /\ helper.fn = "health_check" /\ helper.ret[1].github
  /\ \E d \in Deps : Ended(d) /\ failed[d] = "add_license"

\* /health never reports false while the application serves, and an exception
\* that leaves a constructor keeps the application from serving.
C40_HealthAlwaysTrue ==
  /\ app = "serving" => llm_service # None /\ github_service # None
  /\ helper.fn = "health_check" => helper.ret[1] = [llm |-> TRUE, github |-> TRUE]


====
